---- MODULE Spec2Model ----
(***************************************************************************)
(* Agent session core of ollama-interface: conversation state, the         *)
(* streamed chat turn with its prompt-embedded tool-call protocol, the     *)
(* tool dispatcher and the command executor.                               *)
(*                                                                         *)
(* Text is a sequence of tokens.  A token is a TLA+ string holding the     *)
(* characters it stands for, so that Len(token) is its length in           *)
(* characters; tags, white space, words and JSON values are tokens.        *)
(***************************************************************************)
EXTENDS Integers, Sequences, FiniteSets, TLC

VARIABLES
    agent,      \* the PrivateAgent instance: its fields
    lastOp,     \* the last public operation called on it, with its arguments
    blob,       \* the text last produced by exportHistory, and the agent it was made of
    scan,       \* an assistant text being written, and what extractToolCalls made of it
    tools,      \* the SystemTools instance, the child process and the call under way
    turn,       \* the streamChat turn under way: its promise, streams and closures
    agents,     \* the web server's Map of sessions: session id to agent
    reply       \* the web server's last answer: its status

convVars == <<agent, lastOp, blob>>

runVars == <<tools, turn>>

webVars == <<agents, reply>>

vars == <<agent, lastOp, blob, scan, tools, turn, agents, reply>>

----------------------------------------------------------------------------
(* Bounds of the model *)

\* SpecReset offers addMessage only while the history is shorter than this.
MaxHistory == 12

\* The larger of the two token budgets an agent is constructed with.
BigBudget == 5

----------------------------------------------------------------------------
(* Text *)

RECURSIVE TextLen(_)
\* content.length of a text: the characters of its tokens.
TextLen(text) ==
    IF text = <<>> THEN 0 ELSE Len(Head(text)) + TextLen(Tail(text))

TagOpen == "<tool_call>"
TagClose == "</tool_call>"
FnOpen == "<function>"
FnClose == "</function>"
ArgOpen == "<arguments>"
ArgClose == "</arguments>"

\* The two halves of an opening tag that arrived in two pieces.
TagOpenHead == "<tool_"
TagOpenTail == "call>"

\* A token of white space (the regular expression's \s, and what trim() removes).
IsSpace(tok) == tok \in {" ", "\n", "\t"}

RECURSIVE Join(_)
\* The text as one string: the halves of a tag that meet make the tag.
Join(text) ==
    IF Len(text) < 2 THEN text
    ELSE IF text[1] = TagOpenHead /\ text[2] = TagOpenTail
         THEN <<TagOpen>> \o Join(SubSeq(text, 3, Len(text)))
         ELSE <<text[1]>> \o Join(Tail(text))

\* s + t of two strings
Cat(s, t) == Join(s \o t)

RECURSIVE TrimStart(_)
TrimStart(text) ==
    IF text # <<>> /\ IsSpace(Head(text)) THEN TrimStart(Tail(text)) ELSE text

RECURSIVE TrimEnd(_)
TrimEnd(text) ==
    IF text # <<>> /\ IsSpace(text[Len(text)])
    THEN TrimEnd(SubSeq(text, 1, Len(text) - 1))
    ELSE text

\* text.trim()
Trim(text) == TrimEnd(TrimStart(text))

----------------------------------------------------------------------------
(* Conversation state: agent.js, PrivateAgent *)

\* JavaScript's undefined, where a string is expected.
UNDEF == "<undefined>"

\* A value that the || operator passes over.
Falsy(v) == v \in {UNDEF, ""}

\* a || b
OrElse(a, b) == IF Falsy(a) THEN b ELSE a

DefaultModel == "llama2"
DefaultSystemPrompt == "You are a helpful AI assistant."
DefaultMaxContextTokens == 4096

ResetNotice ==
    [role |-> "system",
     content |-> <<"[Previous conversation context was reset due to length limit]">>]

\* new PrivateAgent(config)
NewAgent(config) ==
    [model |-> OrElse(config.model, DefaultModel),
     maxContextTokens |->
        IF config.maxContextTokens = 0 THEN DefaultMaxContextTokens
        ELSE config.maxContextTokens,
     conversationHistory |-> <<>>,
     systemPrompt |-> OrElse(config.systemPrompt, DefaultSystemPrompt),
     enableTools |-> config.enableTools,
     toolCallHistory |-> <<>>]

RECURSIVE TotalChars(_)
\* conversationHistory.reduce((sum, msg) => sum + msg.content.length, 0)
TotalChars(history) ==
    IF history = <<>> THEN 0
    ELSE TextLen(Head(history).content) + TotalChars(Tail(history))

\* OverBudget as it would be with an estimate rounded down to whole tokens.
OverBudgetWholeTokens(history, maxContextTokens) ==
    TotalChars(history) \div 4 > maxContextTokens

\* estimatedTokens > maxContextTokens, with estimatedTokens = totalChars / 4
\* (a division of reals): totalChars > 4 * maxContextTokens.
OverBudget(history, maxContextTokens) ==
    TotalChars(history) > 4 * maxContextTokens

IsSystem(msg) == msg.role = "system"

\* history.slice(-n)
SliceLast(history, n) ==
    IF Len(history) <= n THEN history
    ELSE SubSeq(history, Len(history) - n + 1, Len(history))

KeepRecent == 10

\* ResetHistory as it would be if the reset kept only the recent messages.
ResetHistoryDropsSystem(history) ==
    <<ResetNotice>> \o SliceLast(history, KeepRecent)

\* The history checkAndResetContext builds when it resets.
ResetHistory(history) ==
    SelectSeq(history, IsSystem) \o <<ResetNotice>> \o SliceLast(history, KeepRecent)

\* checkAndResetContext(): the history it leaves, and its return value.
CheckAndResetContext(history, maxContextTokens) ==
    IF OverBudget(history, maxContextTokens)
    THEN [history |-> ResetHistory(history), reset |-> TRUE]
    ELSE [history |-> history, reset |-> FALSE]

\* addMessage(role, content): the agent afterwards.
AddMessage(a, role, content) ==
    LET pushed == Append(a.conversationHistory, [role |-> role, content |-> content])
    IN [a EXCEPT !.conversationHistory =
            CheckAndResetContext(pushed, a.maxContextTokens).history]

\* The value addMessage(role, content) returns to its caller, as JavaScript
\* prints it: the body ends without a return statement, the value of
\* this.checkAndResetContext() is not used.
AddMessageReturns(a, role, content) == "undefined"

\* ClearHistory as it would be if it emptied the records of the agent too.
ClearHistoryAndRecords(a) ==
    [a EXCEPT !.conversationHistory = <<>>, !.toolCallHistory = <<>>]

\* clearHistory()
ClearHistory(a) == [a EXCEPT !.conversationHistory = <<>>]

\* setModel(model)
SetModel(a, m) == [a EXCEPT !.model = m]

\* setSystemPrompt(prompt)
SetSystemPrompt(a, p) == [a EXCEPT !.systemPrompt = p]

\* setToolsEnabled(enabled)
SetToolsEnabled(a, enabled) == [a EXCEPT !.enableTools = enabled]

----------------------------------------------------------------------------
(* Export and import.  A JSON text is modelled by the document it denotes: *)
(* [json |-> TRUE, doc |-> a function from its keys to their values], or   *)
(* [json |-> FALSE] for a text JSON.parse rejects.                         *)

\* JSON.stringify of an object: a property whose value is undefined is left out.
JsonStringify(obj) ==
    [json |-> TRUE,
     doc |-> [k \in {key \in DOMAIN obj : obj[key] # UNDEF} |-> obj[k]]]

\* data.key of a parsed document: undefined when the key is absent.
Prop(data, key) == IF key \in DOMAIN data THEN data[key] ELSE UNDEF

\* exportHistory(): the text returned.  The history is an array, never undefined.
ExportHistory(a) ==
    LET strings == JsonStringify([model |-> a.model,
                                  systemPrompt |-> a.systemPrompt,
                                  timestamp |-> "toISOString"])
    IN [json |-> TRUE,
        doc |-> [k \in DOMAIN strings.doc \cup {"history"} |->
                    IF k = "history" THEN a.conversationHistory
                    ELSE strings.doc[k]]]

\* The text null: JSON.parse accepts it and returns null, which has no
\* properties to read.
NullText == [json |-> TRUE, null |-> TRUE]

IsNullText(text) == "null" \in DOMAIN text

\* ImportHistory as it would be if it fell back on the constructor's defaults.
ImportHistoryDefaults(a, text) ==
    IF ~text.json \/ IsNullText(text)
    THEN [agent |-> a, threw |-> TRUE]
    ELSE LET data == text.doc
         IN [agent |->
                [a EXCEPT
                    !.model = OrElse(Prop(data, "model"), DefaultModel),
                    !.systemPrompt = OrElse(Prop(data, "systemPrompt"), DefaultSystemPrompt),
                    !.conversationHistory =
                        IF "history" \in DOMAIN data THEN data["history"] ELSE <<>>],
             threw |-> FALSE]

\* ImportHistory as it would be if it emptied the history before it parsed
\* the text.
ImportHistoryClearsFirst(a, text) ==
    IF ~text.json \/ IsNullText(text)
    THEN [agent |-> [a EXCEPT !.conversationHistory = <<>>], threw |-> TRUE]
    ELSE LET data == text.doc
         IN [agent |->
                [a EXCEPT
                    !.model = OrElse(Prop(data, "model"), a.model),
                    !.systemPrompt = OrElse(Prop(data, "systemPrompt"), a.systemPrompt),
                    !.conversationHistory =
                        IF "history" \in DOMAIN data THEN data["history"] ELSE <<>>],
             threw |-> FALSE]

\* ImportHistory as it would be if a text without history kept the history
\* of the agent.
ImportHistoryKeepsHistory(a, text) ==
    IF ~text.json \/ IsNullText(text)
    THEN [agent |-> a, threw |-> TRUE]
    ELSE LET data == text.doc
         IN [agent |->
                [a EXCEPT
                    !.model = OrElse(Prop(data, "model"), a.model),
                    !.systemPrompt = OrElse(Prop(data, "systemPrompt"), a.systemPrompt),
                    !.conversationHistory =
                        IF "history" \in DOMAIN data THEN data["history"]
                        ELSE a.conversationHistory],
             threw |-> FALSE]

\* importHistory(jsonString): the agent afterwards, and whether it threw.
\* JSON.parse throws for a text that is not JSON, and data.model, the first
\* property read, throws for null; both before anything is assigned.
ImportHistory(a, text) ==
    IF ~text.json \/ IsNullText(text)
    THEN [agent |-> a, threw |-> TRUE]
    ELSE LET data == text.doc
         IN [agent |->
                [a EXCEPT
                    !.model = OrElse(Prop(data, "model"), a.model),
                    !.systemPrompt = OrElse(Prop(data, "systemPrompt"), a.systemPrompt),
                    !.conversationHistory =
                        IF "history" \in DOMAIN data THEN data["history"] ELSE <<>>],
             threw |-> FALSE]

----------------------------------------------------------------------------
(* JavaScript values that tool arguments take: an object is                *)
(* [t |-> "object", v |-> a function from its keys to their values].       *)

JsObject(props) == [t |-> "object", v |-> props]
JsString(str) == [t |-> "string", v |-> str]
JsArray == [t |-> "array"]
JsNull == [t |-> "null"]

\* {}
EmptyObject == JsObject(<<>>)

ListArgsText == "{\"path\":\".\",\"detailed\":true}"
CommandArgsText == "{\"command\":\"ls -la\"}"
ReadArgsText == "{\"filepath\":\"a.txt\"}"
WriteArgsText == "{\"filepath\":\"a.txt\",\"content\":\"x\"}"
RmArgsText == "{\"command\":\"rm -rf /\"}"

\* JSON strings whose content is itself a JSON text: of an array, of an object.
QuotedArrayText == "\"[1]\""
QuotedReadArgsText == "\"{\\\"filepath\\\":\\\"a.txt\\\"}\""

\* The tokens that are JSON texts.
JsonTokens ==
    {ListArgsText, CommandArgsText, ReadArgsText, WriteArgsText, "{}", "[1]", "null", "\"{}\"",
     QuotedArrayText, QuotedReadArgsText, RmArgsText}

\* JSON.parse of a token of JsonTokens
JsonDecode(tok) ==
    CASE tok = ListArgsText -> JsObject([path |-> ".", detailed |-> TRUE])
      [] tok = CommandArgsText -> JsObject([command |-> <<"ls", " ", "-la">>])
      [] tok = ReadArgsText -> JsObject([filepath |-> <<"a.txt">>])
      [] tok = WriteArgsText -> JsObject([filepath |-> <<"a.txt">>, content |-> <<"x">>])
      [] tok = "{}" -> EmptyObject
      [] tok = "[1]" -> JsArray
      [] tok = "null" -> JsNull
      [] tok = "\"{}\"" -> JsString(<<"{}">>)
      [] tok = QuotedArrayText -> JsString(<<"[1]">>)
      [] tok = QuotedReadArgsText -> JsString(<<ReadArgsText>>)
      [] tok = RmArgsText -> JsObject([command |-> <<"rm", " ", "-rf", " ", "/">>])

\* JSON.parse(text): the value, or that it threw. White space around the
\* value is allowed; any other token beside it is a syntax error.
JsonParse(text) ==
    LET body == Trim(text)
    IN IF Len(body) = 1 /\ body[1] \in JsonTokens
       THEN [threw |-> FALSE, value |-> JsonDecode(body[1])]
       ELSE [threw |-> TRUE]

----------------------------------------------------------------------------
(* extractToolCalls: the regular expression                                *)
(*   <tool_call>\s*<function>(.*?)</function>\s*<arguments>(.*?)           *)
(*   </arguments>\s*</tool_call>      with the flags g and s               *)
(* applied by exec() until it finds no more.                               *)

At(text, i, tok) == i <= Len(text) /\ text[i] = tok

RECURSIVE SkipSpace(_, _)
\* Where \s* ends when it starts at i: it takes all the white space there is,
\* and what follows it in the expression is never white space.
SkipSpace(text, i) ==
    IF i <= Len(text) /\ IsSpace(text[i]) THEN SkipSpace(text, i + 1) ELSE i

Least(S) == CHOOSE x \in S : \A y \in S : x <= y

\* The places where (.*?)</arguments>\s*</tool_call> can end the second group
\* when the group starts at b: the lazy group takes the first of them.
ArgsEnds(text, b) ==
    {f \in b..Len(text) :
        /\ text[f] = ArgClose
        /\ At(text, SkipSpace(text, f + 1), TagClose)}

\* The places where (.*?)</function>\s*<arguments>... can end the first group
\* when the group starts at a.
NameEnds(text, a) ==
    {e \in a..Len(text) :
        /\ text[e] = FnClose
        /\ At(text, SkipSpace(text, e + 1), ArgOpen)
        /\ ArgsEnds(text, SkipSpace(text, e + 1) + 1) # {}}

\* Whether the expression matches with <tool_call> at place i.
MatchesAt(text, i) ==
    /\ At(text, i, TagOpen)
    /\ At(text, SkipSpace(text, i + 1), FnOpen)
    /\ NameEnds(text, SkipSpace(text, i + 1) + 1) # {}

\* The match at place i: the two groups and the place of its last token.
MatchAt(text, i) ==
    LET a == SkipSpace(text, i + 1) + 1
        e == Least(NameEnds(text, a))
        b == SkipSpace(text, e + 1) + 1
        f == Least(ArgsEnds(text, b))
    IN [group1 |-> SubSeq(text, a, e - 1),
        group2 |-> SubSeq(text, b, f - 1),
        last |-> SkipSpace(text, f + 1)]

\* The tool call made of one match.
ToolCallOf(match) ==
    LET argsText == Trim(match.group2)
        parsed == JsonParse(argsText)
    IN [name |-> Trim(match.group1),
        arguments |-> IF argsText # <<>> /\ ~parsed.threw THEN parsed.value
                      ELSE EmptyObject]

RECURSIVE ExecLoop(_, _, _)
\* while ((match = regex.exec(text)) !== null), with lastIndex at place from.
ExecLoop(text, from, toolCalls) ==
    LET starts == {i \in from..Len(text) : MatchesAt(text, i)}
    IN IF starts = {} THEN toolCalls
       ELSE LET match == MatchAt(text, Least(starts))
            IN ExecLoop(text, match.last + 1, Append(toolCalls, ToolCallOf(match)))

\* ExtractToolCalls as it would be without the g flag and the loop.
ExtractFirstOnly(text) ==
    LET starts == {i \in 1..Len(text) : MatchesAt(text, i)}
    IN IF starts = {} THEN <<>>
       ELSE <<ToolCallOf(MatchAt(text, Least(starts)))>>

\* extractToolCalls(text)
ExtractToolCalls(text) == ExecLoop(text, 1, <<>>)

----------------------------------------------------------------------------
(* Command executor: system-tools.js, SystemTools.  A command is a text:   *)
(* words and the white space between them.                                 *)

CmdList == <<"ls", " ", "-la">>
CmdSleep == <<"sleep", " ", "60">>
CmdRmRoot == <<"rm", " ", "-rf", " ", "/">>
CmdRmUpper == <<"RM", "\t", "-RF", " ", " ", "/tmp">>
CmdRmSplit == <<"rm", " ", "-r", " ", "-f", " ", "/">>
CmdForkBomb == <<":(){", " ", ":|:&", " ", "};:">>
CmdShutdown == <<"sudo", " ", "shutdown", " ", "now">>
CmdMkfs == <<"mkfs.ext4", " ", "/dev/sda">>

\* tok.toLowerCase()
ToLowerCase(tok) ==
    CASE tok = "RM" -> "rm"
      [] tok = "-RF" -> "-rf"
      [] OTHER -> tok

\* command.toLowerCase()
LowerCase(command) == [i \in DOMAIN command |-> ToLowerCase(command[i])]

\* In a pattern: \s+
WsPlus == {"\\s+"}

\* The dangerousPatterns, each a sequence of sets of words (the words of the
\* model that the part of the expression matches up to a word's end) and \s+.
\* The sixth, /:(){ :|:& };:/, is an alternation: ":" "{ :" or ":& };:".
DangerousPatterns ==
    << <<{"rm"}, WsPlus, {"-rf"}, WsPlus, {"/", "/tmp", "/dev/sda"}>>,
       <<{"del"}, WsPlus, {"/s"}, WsPlus, {"/q"}, WsPlus, {"c:\\"}>>,
       <<{"format"}, WsPlus, {"c:", "c:\\"}>>,
       <<{"mkfs", "mkfs.ext4"}>>,
       <<{"dd"}, WsPlus, {"if=/dev/zero"}>>,
       <<{":{"}, {" "}, {":", ":|:&"}>>,
       <<{":|:&"}, {" "}, {"};:"}>>,
       <<{"shutdown"}>>,
       <<{"reboot"}>>,
       <<{"init"}, WsPlus, {"0"}>>,
       <<{"systemctl"}, WsPlus, {"poweroff"}>> >>

RECURSIVE MatchesPattern(_, _, _)
\* Whether the pattern matches the command from place i on.
MatchesPattern(command, i, pattern) ==
    IF pattern = <<>> THEN TRUE
    ELSE IF i > Len(command) THEN FALSE
    ELSE IF Head(pattern) = WsPlus
         THEN /\ IsSpace(command[i])
              /\ \/ MatchesPattern(command, i + 1, pattern)
                 \/ MatchesPattern(command, i + 1, Tail(pattern))
         ELSE /\ command[i] \in Head(pattern)
              /\ MatchesPattern(command, i + 1, Tail(pattern))

\* pattern.test(lowerCmd)
PatternTest(pattern, lowerCmd) ==
    \E i \in 1..Len(lowerCmd) : MatchesPattern(lowerCmd, i, pattern)

\* isDangerousCommand(command)
IsDangerousCommand(command) ==
    LET lowerCmd == LowerCase(command)
    IN \E n \in 1..Len(DangerousPatterns) : PatternTest(DangerousPatterns[n], lowerCmd)

SecurityError == <<"Command blocked for security reasons">>
TimeoutError == <<"Command timeout">>

\* A text that is undefined (an argument that was not given).
Undefined == <<UNDEF>>

TypeError == <<"Cannot read properties of undefined">>

\* What a call returned, when it has not returned.
NoValue == [kind |-> "none"]

\* No call of the executor or of executeTool is under way.
\*   api     the method called;  owner  who awaits it: the client or the turn
\*   io      what the call awaits: a child process or a file-system primitive
\*   pc      idle, awaiting, returned or threw
NoCall ==
    [api |-> "none", owner |-> "client", name |-> <<>>, args |-> JsNull,
     command |-> <<>>, io |-> "none", pc |-> "idle", error |-> <<>>,
     value |-> NoValue, spawned |-> FALSE, timerArmed |-> FALSE, timedOut |-> FALSE]

\* new SystemTools(), with the child process and the timer of the call under
\* way, what the child has written (streaming mode) and what onData was given.
\* spawnLog lists the commands a child process was spawned for, started
\* counts the calls made.
NewTools ==
    [executionHistory |-> <<>>, call |-> NoCall, proc |-> "none", timer |-> "none",
     stdout |-> <<>>, onData |-> <<>>, spawnLog |-> <<>>, started |-> 0]

\* The entry of executionHistory; the clock's fields (executionTime, timestamp)
\* and cwd are left out.  error is empty when the entry has none.
Execution(command, stdout, stderr, exitCode, error) ==
    [kind |-> "execution", command |-> command, stdout |-> stdout,
     stderr |-> stderr, exitCode |-> exitCode, error |-> error]

\* The error exec() reports for a child that failed: its exit code ("null"
\* for a child that was killed), what it wrote, and the message.
ExecError(command, code) ==
    [code |-> code,
     stdout |-> IF code = "null" THEN <<>> ELSE <<"out">>,
     stderr |-> IF code = "null" THEN <<>> ELSE <<"err">>,
     message |-> <<"Command failed: ">> \o command]

\* The entry executeCommand makes in its catch block.
FailedExecution(command, err) ==
    Execution(command,
              err.stdout,
              IF err.stderr # <<>> THEN err.stderr ELSE err.message,
              IF err.code \in {"null", "0"} THEN "1" ELSE err.code,
              err.message)

\* The call under way returns value / throws error.
CallReturned(w, value) ==
    [w EXCEPT !.tools.call.pc = "returned", !.tools.call.value = value]

CallThrew(w, error) ==
    [w EXCEPT !.tools.call.pc = "threw", !.tools.call.error = error]

\* executeTool's record of a call, pushed on toolCallHistory (the clock's
\* fields are left out).
ToolCallRecord(call, success, result, error) ==
    [function |-> call.name, args |-> call.args, success |-> success,
     result |-> result, error |-> error]

\* ToolSucceeded as it would be if the history kept the latest record only.
ToolSucceededLatestOnly(w, result) ==
    CallReturned(
        [w EXCEPT !.agent.toolCallHistory =
            <<ToolCallRecord(w.tools.call, TRUE, result, <<>>)>>],
        result)

\* ToolSucceeded as it would be if only failures were recorded.
ToolSucceededUnrecorded(w, result) == CallReturned(w, result)

\* executeTool: the primitive returned result.
ToolSucceeded(w, result) ==
    CallReturned(
        [w EXCEPT !.agent.toolCallHistory =
            Append(@, ToolCallRecord(w.tools.call, TRUE, result, <<>>))],
        result)

\* ToolFailed as it would be if the catch block threw again without making
\* its record.
ToolFailedUnrecorded(w, error) == CallThrew(w, error)

\* executeTool: the primitive threw error (the catch block).
ToolFailed(w, error) ==
    CallThrew(
        [w EXCEPT !.agent.toolCallHistory =
            Append(@, ToolCallRecord(w.tools.call, FALSE, NoValue, error))],
        error)

\* getToolCallHistory(limit): the last limit records.
GetToolCallHistory(a, limit) == SliceLast(a.toolCallHistory, limit)

\* clearToolCallHistory()
ClearToolCallHistory(a) == [a EXCEPT !.toolCallHistory = <<>>]

\* What executeCommand returned or threw reaches its caller: the client, or
\* executeTool, which records it.
CommandReturned(w, execution) ==
    IF w.tools.call.api = "executeTool" THEN ToolSucceeded(w, execution)
    ELSE CallReturned(w, execution)

CommandThrew(w, error) ==
    IF w.tools.call.api = "executeTool" THEN ToolFailed(w, error)
    ELSE CallThrew(w, error)

\* exec() or spawn(): a child process runs the command, and the timeout is armed.
Spawn(w, command) ==
    [w EXCEPT !.tools.proc = "running",
              !.tools.timer = "armed",
              !.tools.stdout = <<>>,
              !.tools.onData = <<>>,
              !.tools.spawnLog = Append(@, command),
              !.tools.call.io = "process",
              !.tools.call.pc = "awaiting",
              !.tools.call.spawned = TRUE,
              !.tools.call.timerArmed = TRUE]

\* executeCommand up to its first wait: the security check, then exec().
ExecuteCommand(w, command) ==
    IF command = Undefined THEN CommandThrew(w, TypeError)
    ELSE IF IsDangerousCommand(command) THEN CommandThrew(w, SecurityError)
    ELSE Spawn(w, command)

\* executeCommandStream as it would be without its security check.
ExecuteCommandStreamUnchecked(w, command) == Spawn(w, command)

\* executeCommandStream up to its first wait: the security check, then
\* spawn() and the 60-second timer.
ExecuteCommandStream(w, command) ==
    IF command = Undefined THEN CallThrew(w, TypeError)
    ELSE IF IsDangerousCommand(command) THEN CallThrew(w, SecurityError)
    ELSE Spawn(w, command)

\* OnProcExit as it would be if executeCommand let the rejection of exec()
\* through: a child that exits with a code other than 0 makes the call throw.
OnProcExitRejecting(w, code) ==
    LET t == w.tools
        closed == [w EXCEPT !.tools.proc = "closed"]
    IN IF t.call.api = "executeCommandStream"
       THEN LET execution == Execution(t.call.command, t.stdout, <<>>, code, <<>>)
                pushed == [closed EXCEPT !.tools.executionHistory = Append(@, execution)]
            IN IF t.call.pc = "awaiting" THEN CallReturned(pushed, execution)
               ELSE pushed
       ELSE LET execution ==
                    IF code = "0"
                    THEN Execution(t.call.command, <<"out">>, <<>>, "0", <<>>)
                    ELSE FailedExecution(t.call.command, ExecError(t.call.command, code))
                pushed == [closed EXCEPT !.tools.executionHistory = Append(@, execution),
                                         !.tools.timer = "cleared"]
            IN IF code = "0" THEN CommandReturned(pushed, execution)
               ELSE CommandThrew(pushed, ExecError(t.call.command, code).message)

\* The child closes with an exit code, not killed.
\* Streaming mode: the close handler.  Buffered mode: exec() resolves for the
\* code 0 and rejects for any other, and executeCommand returns either way.
OnProcExit(w, code) ==
    LET t == w.tools
        closed == [w EXCEPT !.tools.proc = "closed"]
    IN IF t.call.api = "executeCommandStream"
       THEN LET execution == Execution(t.call.command, t.stdout, <<>>, code, <<>>)
                pushed == [closed EXCEPT !.tools.executionHistory = Append(@, execution)]
            IN IF t.call.pc = "awaiting" THEN CallReturned(pushed, execution)
               ELSE pushed
       ELSE LET execution ==
                    IF code = "0"
                    THEN Execution(t.call.command, <<"out">>, <<>>, "0", <<>>)
                    ELSE FailedExecution(t.call.command, ExecError(t.call.command, code))
                pushed == [closed EXCEPT !.tools.executionHistory = Append(@, execution),
                                         !.tools.timer = "cleared"]
            IN CommandReturned(pushed, execution)

\* The timeout passes.  Buffered mode: exec() kills the child.  Streaming
\* mode: the setTimeout callback kills the child and rejects.
OnTimeout(w) ==
    LET t == w.tools
        fired == [w EXCEPT !.tools.timer = "fired",
                           !.tools.proc = IF @ = "running" THEN "killed" ELSE @,
                           !.tools.call.timedOut = (t.proc = "running")]
    IN IF t.call.api = "executeCommandStream" /\ t.call.pc = "awaiting"
       THEN CallThrew(fired, TimeoutError)
       ELSE fired

\* The killed child closes.  Buffered mode: exec() rejects with the error of a
\* killed child, and executeCommand returns its entry.  Streaming mode: the
\* close handler.
OnKilledClose(w) ==
    LET t == w.tools
        closed == [w EXCEPT !.tools.proc = "closed"]
    IN IF t.call.api = "executeCommandStream"
       THEN LET execution == Execution(t.call.command, t.stdout, <<>>, "null", <<>>)
                pushed == [closed EXCEPT !.tools.executionHistory = Append(@, execution)]
            IN IF t.call.pc = "awaiting" THEN CallReturned(pushed, execution)
               ELSE pushed
       ELSE LET execution ==
                    FailedExecution(t.call.command, ExecError(t.call.command, "null"))
                pushed == [closed EXCEPT !.tools.executionHistory = Append(@, execution)]
            IN CommandReturned(pushed, execution)

\* Streaming mode: the child writes a piece of output.
OnStdout(w, text) ==
    [w EXCEPT !.tools.stdout = @ \o text,
              !.tools.onData = Append(@, [type |-> "stdout", data |-> text])]

----------------------------------------------------------------------------
(* Tool dispatcher: agent.js, PrivateAgent.executeTool, and the primitives  *)
(* of SystemTools it calls.                                                 *)

\* args.key where it is a text: Undefined when args has no such property.
ArgText(args, key) ==
    IF args.t = "object" /\ key \in DOMAIN args.v THEN args.v[key] ELSE Undefined

\* A value that is a string, and a value JSON.stringify(value, null, 2) renders
\* as text.
StringValue(text) == [kind |-> "string", text |-> text]
JsonValue(text) == [kind |-> "json", text |-> text]

\* process.cwd()
CurrentDirectory == StringValue(<<"/home/user">>)

\* getSystemInfo()
SystemInfo == JsonValue(<<"{\"platform\":\"linux\"}">>)

\* A text of 500 characters.
Listing500 == "xxxxxxxxxxxxxxxxxxxxxxxxxxxxxxxxxxxxxxxxxxxxxxxxxxxxxxxxxxxxxxxxxxxxxxxxxxxxxxxxxxxxxxxxxxxxxxxxxxxxxxxxxxxxxxxxxxxxxxxxxxxxxxxxxxxxxxxxxxxxxxxxxxxxxxxxxxxxxxxxxxxxxxxxxxxxxxxxxxxxxxxxxxxxxxxxxxxxxxxxxxxxxxxxxxxxxxxxxxxxxxxxxxxxxxxxxxxxxxxxxxxxxxxxxxxxxxxxxxxxxxxxxxxxxxxxxxxxxxxxxxxxxxxxxxxxxxxxxxxxxxxxxxxxxxxxxxxxxxxxxxxxxxxxxxxxxxxxxxxxxxxxxxxxxxxxxxxxxxxxxxxxxxxxxxxxxxxxxxxxxxxxxxxxxxxxxxxxxxxxxxxxxxxxxxxxxxxxxxxxxxxxxxxxxxxxxxxxxxxxxxxxxxxxxxxxxxxxxxxxxxxxxxxxxxxxxxxxxxxxxxxxxxxxxxxxxxxxxxxx"

\* What a file-system primitive returns: a short value, or one whose text is
\* longer than 500 characters.
FsValue(long) ==
    IF long THEN JsonValue(<<Listing500, "[{\"name\":\"z.txt\"}]">>)
    ELSE JsonValue(<<"[{\"name\":\"a.txt\"}]">>)

\* The message of the error a file-system primitive throws.
FsError(name) ==
    CASE name = <<"list_directory">> -> <<"Failed to list directory: ", "ENOENT">>
      [] name = <<"read_file">> -> <<"Failed to read file: ", "ENOENT">>
      [] name = <<"write_file">> -> <<"Failed to write file: ", "ENOENT">>

\* The primitive waits for the file system.
AwaitFs(w) ==
    [w EXCEPT !.tools.call.io = "fs", !.tools.call.pc = "awaiting"]

\* ExecuteTool as it would be if its switch had no default case: result stays
\* undefined and is recorded and returned.
ExecuteToolNoDefault(w, owner, functionName, args) ==
    LET call == [NoCall EXCEPT !.api = "executeTool", !.owner = owner,
                               !.name = functionName, !.args = args,
                               !.command = ArgText(args, "command")]
        w0 == [w EXCEPT !.tools.call = call]
    IN CASE functionName = <<"execute_command">> ->
                IF args.t = "null" THEN ToolFailed(w0, TypeError)
                ELSE ExecuteCommand(w0, ArgText(args, "command"))
         [] functionName = <<"list_directory">> ->
                IF args.t = "null" THEN ToolFailed(w0, TypeError)
                ELSE AwaitFs(w0)
         [] functionName = <<"read_file">> ->
                IF args.t = "null" THEN ToolFailed(w0, TypeError)
                ELSE IF ArgText(args, "filepath") = Undefined
                THEN ToolFailed(w0, <<"Failed to read file: ", "The \"paths[0]\" argument must be of type string">>)
                ELSE AwaitFs(w0)
         [] functionName = <<"write_file">> ->
                IF args.t = "null" THEN ToolFailed(w0, TypeError)
                ELSE IF ArgText(args, "filepath") = Undefined
                THEN ToolFailed(w0, <<"Failed to write file: ", "The \"paths[0]\" argument must be of type string">>)
                ELSE IF ArgText(args, "content") = Undefined
                THEN ToolFailed(w0, <<"Failed to write file: ", "The \"data\" argument must be of type string">>)
                ELSE AwaitFs(w0)
         [] functionName = <<"get_system_info">> -> ToolSucceeded(w0, SystemInfo)
         [] functionName = <<"get_current_directory">> -> ToolSucceeded(w0, CurrentDirectory)
         [] OTHER -> ToolSucceeded(w0, NoValue)

\* executeTool(functionName, args) up to its first wait; owner is who awaits
\* it.  A call that needs no process and no file returns or throws at once.
ExecuteTool(w, owner, functionName, args) ==
    LET call == [NoCall EXCEPT !.api = "executeTool", !.owner = owner,
                               !.name = functionName, !.args = args,
                               !.command = ArgText(args, "command")]
        w0 == [w EXCEPT !.tools.call = call]
    IN CASE functionName = <<"execute_command">> ->
                IF args.t = "null" THEN ToolFailed(w0, TypeError)
                ELSE ExecuteCommand(w0, ArgText(args, "command"))
         [] functionName = <<"list_directory">> ->
                IF args.t = "null" THEN ToolFailed(w0, TypeError)
                ELSE AwaitFs(w0)
         [] functionName = <<"read_file">> ->
                IF args.t = "null" THEN ToolFailed(w0, TypeError)
                ELSE IF ArgText(args, "filepath") = Undefined
                THEN ToolFailed(w0, <<"Failed to read file: ", "The \"paths[0]\" argument must be of type string">>)
                ELSE AwaitFs(w0)
         [] functionName = <<"write_file">> ->
                IF args.t = "null" THEN ToolFailed(w0, TypeError)
                ELSE IF ArgText(args, "filepath") = Undefined
                THEN ToolFailed(w0, <<"Failed to write file: ", "The \"paths[0]\" argument must be of type string">>)
                ELSE IF ArgText(args, "content") = Undefined
                THEN ToolFailed(w0, <<"Failed to write file: ", "The \"data\" argument must be of type string">>)
                ELSE AwaitFs(w0)
         [] functionName = <<"get_system_info">> -> ToolSucceeded(w0, SystemInfo)
         [] functionName = <<"get_current_directory">> -> ToolSucceeded(w0, CurrentDirectory)
         [] OTHER -> ToolFailed(w0, <<"Unknown tool: ">> \o functionName)

\* The file-system primitive of the call under way finishes.
OnFsDone(w, outcome) ==
    IF outcome = "failed" THEN ToolFailed(w, FsError(w.tools.call.name))
    ELSE ToolSucceeded(w, FsValue(outcome = "long"))

----------------------------------------------------------------------------
(* The streamed chat turn: agent.js, PrivateAgent.streamChat,               *)
(* executeToolCallsAndContinue, buildToolResultPrompt, continueAfterTools.  *)
(* A handler runs to its end, and the promise reactions it leaves run       *)
(* after it, before any other event is handled.                             *)

\* The part getEnhancedSystemPrompt adds after the system prompt.
ToolInstructions == "\n\nYou have access to system tools"

\* getEnhancedSystemPrompt()
GetEnhancedSystemPrompt(a) ==
    IF ~a.enableTools THEN <<a.systemPrompt>>
    ELSE <<a.systemPrompt, ToolInstructions>>

\* The body of a request to /api/chat: the system prompt, then the history.
Request(a, systemPrompt) ==
    [model |-> a.model,
     messages |-> <<[role |-> "system", content |-> systemPrompt]>>
                  \o a.conversationHistory]

\* A line of the stream that JSON.parse accepts, and one it rejects.
Fragment(content, done, promptEvalCount, evalCount) ==
    [json |-> TRUE, content |-> content, done |-> done,
     prompt_eval_count |-> promptEvalCount, eval_count |-> evalCount]

InvalidLine == [json |-> FALSE]

NoFragment == Fragment(<<>>, FALSE, 0, 0)

\* No turn under way.
\*   flow      where the turn's code waits: idle, post1 (the first axios.post),
\*             listen1 (the first stream), tool (executeTool), post2, listen2
\*             (continueAfterTools), over (nothing left to run)
\*   promise   the promise streamChat returned; inner, the one of continueAfterTools
\*   stream1/2 the two requests: none, requested, open, ended, errored, refused
\*   parsed, parsed2: the last fragment the done handler of the first stream,
\*             and the follow-up stream, took from a line
\*   observed  what the done handler of the first stream found
\*   dispatched, commits, requests, chunks: logs of the calls of executeTool,
\*             addMessage, axios.post and onChunk the turn made
\*   wire      the reads the network has delivered, when the model follows
\*             where the byte stream was cut
NoTurn ==
    [flow |-> "idle", promise |-> "none", result |-> [kind |-> "none"], error |-> <<>>,
     userMessage |-> <<>>, executeTools |-> "undefined", before |-> <<>>,
     stream1 |-> "none", sent1 |-> 0, fullResponse |-> <<>>, doneSeen |-> 0,
     parsed |-> NoFragment,
     observed |-> [found |-> 0, enableTools |-> FALSE],
     toolCalls |-> <<>>, toolIdx |-> 0, results |-> <<>>, dispatched |-> <<>>,
     inner |-> "none", stream2 |-> "none", sent2 |-> 0, followUp |-> <<>>,
     doneSeen2 |-> 0, parsed2 |-> NoFragment,
     requests |-> <<>>, chunks |-> <<>>, commits |-> <<>>, wire |-> <<>>]

\* this.addMessage(role, content), called by the turn
TurnAddMessage(w, role, content) ==
    [w EXCEPT !.agent = AddMessage(@, role, content),
              !.turn.commits = Append(@, [role |-> role, content |-> content])]

\* onChunk(text)
OnChunk(w, kind, text) ==
    [w EXCEPT !.turn.chunks = Append(@, [kind |-> kind, text |-> text])]

\* resolve(value) and reject(error) of the promise streamChat returned: a
\* promise that is settled stays as it is.
Resolve(w, value) ==
    IF w.turn.promise = "pending"
    THEN [w EXCEPT !.turn.promise = "resolved", !.turn.result = value]
    ELSE w

Reject(w, error) ==
    IF w.turn.promise = "pending"
    THEN [w EXCEPT !.turn.promise = "rejected", !.turn.error = error]
    ELSE w

\* (parsed?.prompt_eval_count || 0) + (parsed?.eval_count || 0)
TotalTokens(parsed) == parsed.prompt_eval_count + parsed.eval_count

\* The value a turn resolves with.
TurnResult(w, message, toolCalls, parsed) ==
    [kind |-> "result", message |-> message, model |-> w.agent.model,
     contextReset |-> FALSE, toolCalls |-> toolCalls,
     total_tokens |-> TotalTokens(parsed)]

\* streamChat(userMessage, onChunk, options) up to its first wait.
StreamChat(w, userMessage, executeTools) ==
    LET a == AddMessage(w.agent, "user", userMessage)
        systemPromptToUse ==
            IF a.enableTools THEN GetEnhancedSystemPrompt(a) ELSE <<a.systemPrompt>>
    IN [w EXCEPT !.agent = a,
                 !.turn = [NoTurn EXCEPT
                     !.flow = "post1", !.promise = "pending",
                     !.userMessage = userMessage, !.executeTools = executeTools,
                     !.before = w.agent.conversationHistory,
                     !.stream1 = "requested",
                     !.requests = <<Request(a, systemPromptToUse)>>,
                     !.commits = <<[role |-> "user", content |-> userMessage]>>]]

\* The first axios.post resolves: the handlers are put on the stream.
OnResponse(w) ==
    [w EXCEPT !.turn.stream1 = "open", !.turn.flow = "listen1"]

\* The first axios.post rejects: the catch block of streamChat.
OnRequestFailed(w) ==
    Reject([w EXCEPT !.turn.stream1 = "refused", !.turn.flow = "over"],
           <<"Stream chat error: ", "connect ECONNREFUSED">>)

\* NormaliseArgs as it would be without the Array.isArray test.
NormaliseArgsArrays(rawArgs) ==
    IF rawArgs.t = "null" THEN EmptyObject
    ELSE IF rawArgs.t \in {"object", "array"} THEN rawArgs
    ELSE IF rawArgs.t = "string"
    THEN IF Trim(rawArgs.v) \in {<<>>, <<"{}">>} THEN EmptyObject
         ELSE LET parsed == JsonParse(rawArgs.v)
              IN IF parsed.threw THEN EmptyObject ELSE parsed.value
    ELSE EmptyObject

\* The arguments executeToolCallsAndContinue passes on for the raw arguments
\* of a tool call: an object as it is, a string parsed, {} for anything else
\* and for a string that does not parse.
NormaliseArgs(rawArgs) ==
    IF rawArgs.t = "null" THEN EmptyObject
    ELSE IF rawArgs.t = "object" THEN rawArgs
    ELSE IF rawArgs.t = "string"
    THEN IF Trim(rawArgs.v) \in {<<>>, <<"{}">>} THEN EmptyObject
         ELSE LET parsed == JsonParse(rawArgs.v)
              IN IF parsed.threw THEN EmptyObject ELSE parsed.value
    ELSE EmptyObject

\* JSON.stringify(args) of a value JSON.parse gave
JsonEncode(value) == CHOOSE tok \in JsonTokens : JsonDecode(tok) = value

\* The text of a tool's result: a string as it is, an execution by its
\* output, any other value by JSON.stringify(result, null, 2).
ResultText(result) ==
    IF result.kind = "string" THEN result.text
    ELSE IF result.kind = "execution"
    THEN result.stdout \o (IF result.stderr # <<>>
                           THEN <<"\nStderr: ">> \o result.stderr ELSE <<>>)
    ELSE result.text

\* The length of the preview of a result forwarded to the caller.
PreviewLength == 500

RECURSIVE Substring(_, _)
\* text.substring(0, n), for a text that has a token ending at n when it is
\* longer than n.
Substring(text, n) ==
    IF text = <<>> \/ Len(Head(text)) > n THEN <<>>
    ELSE <<Head(text)>> \o Substring(Tail(text), n - Len(Head(text)))

\* The three backquotes and the backquote of the progress markers (a string
\* of the model cannot hold a backquote).
CodeFence == "'''"
CodeQuote == "'"

ExecutingTools == <<"\n\nExecuting tools...\n\n">>

ResultChunk(resultText) ==
    <<"**Result:**\n", CodeFence, "\n">> \o Substring(resultText, PreviewLength)
    \o (IF TextLen(resultText) > PreviewLength THEN <<"...">> ELSE <<>>)
    \o <<"\n", CodeFence, "\n\n">>

ErrorChunk(message) == <<"**Error:** ">> \o message \o <<"\n\n">>

RECURSIVE ResultLines(_)
\* The loop of buildToolResultPrompt: an entry with a non-empty error is
\* given by its error, any other by its result.
ResultLines(results) ==
    IF results = <<>> THEN <<>>
    ELSE LET result == Head(results)
         IN <<"Tool: ">> \o result.tool \o <<"\n">>
            \o (IF result.kind = "error" /\ result.text # <<>>
                THEN <<"Error: ">> \o result.text \o <<"\n\n">>
                ELSE <<"Result:\n">>
                     \o (IF result.kind = "result" THEN result.text ELSE <<"undefined">>)
                     \o <<"\n\n">>)
            \o ResultLines(Tail(results))

\* buildToolResultPrompt(toolResults)
BuildToolResultPrompt(toolResults) ==
    <<"Tool execution results:\n\n">> \o ResultLines(toolResults)
    \o <<"Please provide a natural language response to the user based on these results.">>

\* ContinueAfterTools as it would be if it took the system prompt the way
\* streamChat does.
ContinueAfterToolsEnhanced(w, prompt) ==
    LET added == TurnAddMessage(w, "user", prompt)
    IN [added EXCEPT !.turn.flow = "post2",
                     !.turn.inner = "pending",
                     !.turn.stream2 = "requested",
                     !.turn.requests =
                         Append(@, Request(added.agent,
                                           GetEnhancedSystemPrompt(added.agent)))]

\* continueAfterTools(prompt, onChunk, options) up to its first wait: the
\* prompt is added as a user message and the follow-up request is sent with
\* the plain system prompt.
ContinueAfterTools(w, prompt) ==
    LET added == TurnAddMessage(w, "user", prompt)
    IN [added EXCEPT !.turn.flow = "post2",
                     !.turn.inner = "pending",
                     !.turn.stream2 = "requested",
                     !.turn.requests =
                         Append(@, Request(added.agent, <<added.agent.systemPrompt>>))]

\* AfterTools as it would be if the first response were committed after the
\* follow-up request has been made.
AfterToolsPromptFirst(w) ==
    TurnAddMessage(ContinueAfterTools(w, BuildToolResultPrompt(w.turn.results)),
                   "assistant", w.turn.fullResponse)

\* The reaction to the results of executeToolCallsAndContinue: the first
\* response is committed, then continueAfterTools is called.
AfterTools(w) ==
    ContinueAfterTools(TurnAddMessage(w, "assistant", w.turn.fullResponse),
                       BuildToolResultPrompt(w.turn.results))

\* The body of the loop of executeToolCallsAndContinue for the tool call at
\* toolIdx, up to the wait for executeTool.
DispatchTool(w) ==
    LET toolCall == w.turn.toolCalls[w.turn.toolIdx]
        functionName == toolCall.name
        args == NormaliseArgs(toolCall.arguments)
        told == OnChunk(OnChunk(w, "progress",
                                <<"\n**Tool:** ">> \o functionName \o <<"\n">>),
                        "progress",
                        <<"**Arguments:** ", CodeQuote, JsonEncode(args), CodeQuote, "\n\n">>)
        logged == [told EXCEPT !.turn.dispatched =
                      Append(@, [index |-> w.turn.toolIdx, name |-> functionName,
                                 finished |-> Len(w.turn.results)])]
    IN ExecuteTool(logged, "turn", functionName, args)

\* ToolSettled as it would be if a tool call that failed were tried a second time.
ToolSettledRetrying(w) ==
    LET call == w.tools.call
        tries == Cardinality({i \in DOMAIN w.turn.dispatched :
                                w.turn.dispatched[i].index = w.turn.toolIdx})
        told == IF call.pc = "returned"
                THEN OnChunk(w, "progress", ResultChunk(ResultText(call.value)))
                ELSE OnChunk(w, "progress", ErrorChunk(call.error))
        entry == IF call.pc = "returned"
                 THEN [tool |-> call.name, kind |-> "result",
                       text |-> ResultText(call.value)]
                 ELSE [tool |-> call.name, kind |-> "error", text |-> call.error]
        next == [told EXCEPT !.turn.results = Append(@, entry),
                             !.turn.toolIdx = @ + 1]
    IN IF call.pc = "threw" /\ tries = 1 THEN DispatchTool(told)
       ELSE IF next.turn.toolIdx > Len(next.turn.toolCalls) THEN AfterTools(next)
       ELSE DispatchTool(next)

\* ToolSettled as it would be without the catch block around executeTool:
\* the error of a tool call ends the loop and rejects the turn.
ToolSettledAborting(w) ==
    LET call == w.tools.call
        told == OnChunk(w, "progress", ResultChunk(ResultText(call.value)))
        entry == [tool |-> call.name, kind |-> "result",
                  text |-> ResultText(call.value)]
        next == [told EXCEPT !.turn.results = Append(@, entry),
                             !.turn.toolIdx = @ + 1]
    IN IF call.pc = "threw" THEN Reject([w EXCEPT !.turn.flow = "over"], call.error)
       ELSE IF next.turn.toolIdx > Len(next.turn.toolCalls) THEN AfterTools(next)
       ELSE DispatchTool(next)

\* ToolSettled as it would be if the follow-up were started as soon as the
\* first tool call has finished.
ToolSettledEarly(w) ==
    LET call == w.tools.call
        told == IF call.pc = "returned"
                THEN OnChunk(w, "progress", ResultChunk(ResultText(call.value)))
                ELSE OnChunk(w, "progress", ErrorChunk(call.error))
        entry == IF call.pc = "returned"
                 THEN [tool |-> call.name, kind |-> "result",
                       text |-> ResultText(call.value)]
                 ELSE [tool |-> call.name, kind |-> "error", text |-> call.error]
        next == [told EXCEPT !.turn.results = Append(@, entry),
                             !.turn.toolIdx = @ + 1]
    IN AfterTools(next)

\* The rest of the loop body once executeTool has returned or thrown: the
\* result or the error is forwarded and put on the results list; then the
\* next tool call, or after the last one the reaction to the results.
ToolSettled(w) ==
    LET call == w.tools.call
        told == IF call.pc = "returned"
                THEN OnChunk(w, "progress", ResultChunk(ResultText(call.value)))
                ELSE OnChunk(w, "progress", ErrorChunk(call.error))
        entry == IF call.pc = "returned"
                 THEN [tool |-> call.name, kind |-> "result",
                       text |-> ResultText(call.value)]
                 ELSE [tool |-> call.name, kind |-> "error", text |-> call.error]
        next == [told EXCEPT !.turn.results = Append(@, entry),
                             !.turn.toolIdx = @ + 1]
    IN IF next.turn.toolIdx > Len(next.turn.toolCalls) THEN AfterTools(next)
       ELSE DispatchTool(next)

\* executeToolCallsAndContinue(toolCalls, onChunk, options) up to its first wait
ExecuteToolCallsAndContinue(w, toolCalls) ==
    DispatchTool(OnChunk([w EXCEPT !.turn.flow = "tool",
                                   !.turn.toolCalls = toolCalls,
                                   !.turn.toolIdx = 1,
                                   !.turn.results = <<>>],
                         "progress", ExecutingTools))

RECURSIVE Microtasks(_)
\* The promise reactions left when a handler ends: the turn takes up the
\* executeTool call it waits for once that has returned or thrown.
Microtasks(w) ==
    IF /\ w.turn.flow = "tool"
       /\ w.tools.call.owner = "turn"
       /\ w.tools.call.pc \in {"returned", "threw"}
    THEN Microtasks(ToolSettled(w))
    ELSE w

\* The done handler of the first stream as it would be if it went by the
\* prompt the request was sent with and not by enableTools.
OnDoneAsSent(w, parsed) ==
    LET toolCalls == ExtractToolCalls(w.turn.fullResponse)
        sentWithTools ==
            w.turn.requests[1].messages[1].content
                = <<w.agent.systemPrompt, ToolInstructions>>
        seen == [w EXCEPT !.turn.doneSeen = @ + 1,
                          !.turn.parsed = parsed,
                          !.turn.observed = [found |-> Len(toolCalls),
                                             enableTools |-> w.agent.enableTools]]
    IN IF Len(toolCalls) > 0 /\ sentWithTools /\ w.turn.executeTools # "false"
       THEN ExecuteToolCallsAndContinue(seen, toolCalls)
       ELSE Resolve([TurnAddMessage(seen, "assistant", w.turn.fullResponse)
                        EXCEPT !.turn.flow = IF @ = "listen1" THEN "over" ELSE @],
                    TurnResult(w, w.turn.fullResponse, <<>>, parsed))

\* The done handler of the first stream as it would be if it did not look at
\* options.executeTools.
OnDoneIgnoringOption(w, parsed) ==
    LET toolCalls == ExtractToolCalls(w.turn.fullResponse)
        seen == [w EXCEPT !.turn.doneSeen = @ + 1,
                          !.turn.parsed = parsed,
                          !.turn.observed = [found |-> Len(toolCalls),
                                             enableTools |-> w.agent.enableTools]]
    IN IF Len(toolCalls) > 0 /\ w.agent.enableTools
       THEN ExecuteToolCallsAndContinue(seen, toolCalls)
       ELSE Resolve([TurnAddMessage(seen, "assistant", w.turn.fullResponse)
                        EXCEPT !.turn.flow = IF @ = "listen1" THEN "over" ELSE @],
                    TurnResult(w, w.turn.fullResponse, <<>>, parsed))

\* streamChat, if (parsed.done): the tool calls are extracted from the text
\* accumulated; they are executed, or the text is committed and the turn
\* resolves.
OnDone(w, parsed) ==
    LET toolCalls == ExtractToolCalls(w.turn.fullResponse)
        seen == [w EXCEPT !.turn.doneSeen = @ + 1,
                          !.turn.parsed = parsed,
                          !.turn.observed = [found |-> Len(toolCalls),
                                             enableTools |-> w.agent.enableTools]]
    IN IF Len(toolCalls) > 0 /\ w.agent.enableTools /\ w.turn.executeTools # "false"
       THEN ExecuteToolCallsAndContinue(seen, toolCalls)
       ELSE Resolve([TurnAddMessage(seen, "assistant", w.turn.fullResponse)
                        EXCEPT !.turn.flow = IF @ = "listen1" THEN "over" ELSE @],
                    TurnResult(w, w.turn.fullResponse, <<>>, parsed))

\* The body of the loop as it would be if a line that is no JSON ended the
\* turn with an error.
HandleLineFatal(w, line) ==
    IF ~line.json THEN Reject(w, <<"Parse error in stream">>)
    ELSE LET heard ==
                 IF line.content # <<>>
                 THEN OnChunk([w EXCEPT !.turn.fullResponse = Cat(@, line.content)],
                              "delta1", line.content)
                 ELSE w
         IN IF line.done THEN OnDone(heard, line) ELSE heard

\* The body of the loop over the lines of a chunk of the first stream.
HandleLine(w, line) ==
    IF ~line.json THEN w
    ELSE LET heard ==
                 IF line.content # <<>>
                 THEN OnChunk([w EXCEPT !.turn.fullResponse = Cat(@, line.content)],
                              "delta1", line.content)
                 ELSE w
         IN IF line.done THEN OnDone(heard, line) ELSE heard

RECURSIVE HandleLines(_, _)
HandleLines(w, lines) ==
    IF lines = <<>> THEN w
    ELSE HandleLines(HandleLine(w, Head(lines)), Tail(lines))

\* response.data.on('data') of streamChat
OnData(w, lines) == Microtasks(HandleLines(w, lines))

\* The error handler of the first stream as it would be if it committed the
\* text accumulated so far.
OnStreamErrorCommitting(w) ==
    Reject([TurnAddMessage(w, "assistant", w.turn.fullResponse)
               EXCEPT !.turn.stream1 = "errored",
                      !.turn.flow = IF @ = "listen1" THEN "over" ELSE @],
           <<"Stream error: ", "aborted">>)

\* response.data.on('error') of streamChat
OnStreamError(w) ==
    Reject([w EXCEPT !.turn.stream1 = "errored",
                     !.turn.flow = IF @ = "listen1" THEN "over" ELSE @],
           <<"Stream error: ", "aborted">>)

\* The first stream ends: streamChat has no handler for it.
OnStreamEnd(w) == [w EXCEPT !.turn.stream1 = "ended"]

\* The follow-up axios.post resolves.
OnFollowUpResponse(w) ==
    [w EXCEPT !.turn.stream2 = "open", !.turn.flow = "listen2"]

\* The follow-up axios.post rejects: continueAfterTools throws, and the
\* catch(reject) of streamChat rejects the turn.
OnFollowUpFailed(w) ==
    Reject([w EXCEPT !.turn.stream2 = "refused", !.turn.inner = "rejected",
                     !.turn.flow = "over"],
           <<"Continue chat error: ", "connect ECONNREFUSED">>)

\* continueAfterTools, if (parsed.done): the follow-up text is committed and
\* the promise of continueAfterTools resolves; streamChat then resolves with
\* the first response, the tool calls and the counters of the first request.
OnFollowUpDone(w) ==
    LET added == [TurnAddMessage(w, "assistant", w.turn.followUp)
                     EXCEPT !.turn.doneSeen2 = @ + 1]
    IN IF w.turn.inner = "pending"
       THEN Resolve([added EXCEPT !.turn.inner = "resolved", !.turn.flow = "over"],
                    TurnResult(added, w.turn.fullResponse, w.turn.toolCalls,
                               w.turn.parsed))
       ELSE added

\* The body of the loop as it would be if it accumulated a delta without
\* forwarding it.
HandleFollowUpLineSilent(w, line) ==
    IF ~line.json THEN w
    ELSE LET parsed == [w EXCEPT !.turn.parsed2 = line]
             heard ==
                 IF line.content # <<>>
                 THEN [parsed EXCEPT !.turn.followUp = Cat(@, line.content)]
                 ELSE parsed
         IN IF line.done THEN OnFollowUpDone(heard) ELSE heard

\* The body of the loop over the lines of a chunk of the follow-up stream.
HandleFollowUpLine(w, line) ==
    IF ~line.json THEN w
    ELSE LET parsed == [w EXCEPT !.turn.parsed2 = line]
             heard ==
                 IF line.content # <<>>
                 THEN OnChunk([parsed EXCEPT !.turn.followUp = Cat(@, line.content)],
                              "delta2", line.content)
                 ELSE parsed
         IN IF line.done THEN OnFollowUpDone(heard) ELSE heard

RECURSIVE HandleFollowUpLines(_, _)
HandleFollowUpLines(w, lines) ==
    IF lines = <<>> THEN w
    ELSE HandleFollowUpLines(HandleFollowUpLine(w, Head(lines)), Tail(lines))

\* response.data.on('data') of continueAfterTools
OnFollowUpData(w, lines) == Microtasks(HandleFollowUpLines(w, lines))

\* response.data.on('error') of continueAfterTools
OnFollowUpError(w) ==
    IF w.turn.inner = "pending"
    THEN Reject([w EXCEPT !.turn.stream2 = "errored", !.turn.inner = "rejected",
                          !.turn.flow = "over"],
                <<"Stream error: ", "aborted">>)
    ELSE [w EXCEPT !.turn.stream2 = "errored"]

\* The follow-up stream ends: continueAfterTools has no handler for it.
OnFollowUpEnd(w) == [w EXCEPT !.turn.stream2 = "ended"]

----------------------------------------------------------------------------
(* SpecReset: a client that calls addMessage and clearHistory. *)

SmallBudget == 1

Budgets == {SmallBudget, BigBudget}

\* The messages the client adds.
ResetMessages ==
    {[role |-> "user", content |-> <<"hi">>],
     [role |-> "assistant", content |-> <<"ok", "\n">>],
     [role |-> "system", content |-> <<"note">>]}

\* No assistant text written, extractToolCalls not called.
NoScan == [text |-> <<>>, pieces |-> 0, markers |-> <<>>, clean |-> TRUE,
           calls |-> 0, first |-> <<>>, second |-> <<>>]

\* No agent: the value of lastOp.before where the state before is not recorded.
NoAgent == [model |-> UNDEF]

NoOp == [op |-> "new", role |-> "", content |-> <<>>, arg |-> "", threw |-> FALSE,
         returned |-> "none", before |-> NoAgent]

NoBlob == [text |-> [json |-> FALSE], of |-> NoAgent]

\* new Map(): no session; and no answer given yet.
NoSessions == <<>>

NoReply == [status |-> 0]

InitReset ==
    /\ \E b \in Budgets :
          agent = NewAgent([model |-> UNDEF, systemPrompt |-> UNDEF,
                            maxContextTokens |-> b, enableTools |-> TRUE])
    /\ lastOp = NoOp
    /\ blob = NoBlob
    /\ scan = NoScan
    /\ tools = NewTools
    /\ turn = NoTurn
    /\ agents = NoSessions
    /\ reply = NoReply

CallAddMessage(msg) ==
    /\ Len(agent.conversationHistory) < MaxHistory
    /\ agent' = AddMessage(agent, msg.role, msg.content)
    /\ lastOp' = [NoOp EXCEPT !.op = "addMessage", !.role = msg.role,
                              !.content = msg.content, !.before = agent,
                              !.returned = AddMessageReturns(agent, msg.role,
                                                             msg.content)]
    /\ UNCHANGED <<blob, scan, runVars, webVars>>

CallClearHistory ==
    /\ agent' = ClearHistory(agent)
    /\ lastOp' = [NoOp EXCEPT !.op = "clearHistory", !.before = agent]
    /\ UNCHANGED <<blob, scan, runVars, webVars>>

NextReset ==
    \/ \E msg \in ResetMessages : CallAddMessage(msg)
    \/ CallClearHistory

SpecReset == InitReset /\ [][NextReset]_vars

\* The history as addMessage pushed onto it, before the reset policy ran.
Pushed ==
    Append(lastOp.before.conversationHistory, [role |-> lastOp.role, content |-> lastOp.content])

\* The last operation was an addMessage that left the content over the budget.
AddedOverBudget ==
    /\ lastOp.op = "addMessage"
    /\ TotalChars(Pushed) > 4 * agent.maxContextTokens

NoticeCount(history) ==
    Cardinality({i \in DOMAIN history : history[i] = ResetNotice})

\* history is: the system-role messages of pushed in their order, one reset
\* notice, the last min(10, Len(pushed)) messages of pushed.
ResetShape(history, pushed) ==
    LET sys == SelectSeq(pushed, IsSystem)
        s == Len(sys)
        k == IF Len(pushed) < KeepRecent THEN Len(pushed) ELSE KeepRecent
    IN /\ Len(history) = s + 1 + k
       /\ \A i \in 1..s : history[i] = sys[i]
       /\ history[s + 1] = ResetNotice
       /\ \A j \in 1..k : history[s + 1 + j] = pushed[Len(pushed) - k + j]

\* C1 as stated: after an addMessage that leaves the content over the budget,
\* the history is every system-role message, the last 10 messages, and holds
\* exactly one reset notice.
C1_ExactlyOneNotice ==
    AddedOverBudget =>
        /\ ResetShape(agent.conversationHistory, Pushed)
        /\ NoticeCount(agent.conversationHistory) = 1

\* C1 amended: after an addMessage that leaves the content over the budget, the
\* history is every system-role message that was in it (the notices of earlier
\* resets among them), then one newly added reset notice, then the last 10
\* messages (all of them when there are fewer than 10).
C1_ResetShape ==
    AddedOverBudget => ResetShape(agent.conversationHistory, Pushed)

\* A reset of a history of more than 10 messages that holds the notice of an
\* earlier reset and a system-role message older than the last 10.
C1_Witness ==
    /\ AddedOverBudget
    /\ Len(Pushed) > KeepRecent
    /\ \E i \in 1..(Len(Pushed) - KeepRecent) : IsSystem(Pushed[i])
    /\ NoticeCount(Pushed) >= 1
    /\ \E i \in 1..Len(Pushed) : Pushed[i].role = "system" /\ Pushed[i] # ResetNotice

\* C22: addMessage appends the message, evaluates the reset policy and
\* reports to its caller whether a reset occurred: it returns true when the
\* history was replaced by the reset policy and false when it was not.
C22_ReportsReset ==
    lastOp.op = "addMessage" =>
        /\ agent.conversationHistory
               = CheckAndResetContext(Pushed, agent.maxContextTokens).history
        /\ lastOp.returned = IF AddedOverBudget THEN "true" ELSE "false"

\* An addMessage that reset the history returned undefined.
C22_Witness ==
    /\ AddedOverBudget
    /\ agent.conversationHistory # Pushed
    /\ lastOp.returned = "undefined"

\* C23: the token estimate is the content length of the history divided by
\* 4, the system prompt not counted; addMessage resets exactly when, after
\* the append, the estimate is strictly greater than maxContextTokens, and
\* when the estimate is at most the budget the history is the history
\* before with the new message appended.
C23_ResetExactlyOverBudget ==
    lastOp.op = "addMessage" =>
        LET chars == TotalChars(Pushed)
            budget == lastOp.before.maxContextTokens
        IN /\ agent.maxContextTokens = budget
           /\ chars > 4 * budget => agent.conversationHistory = ResetHistory(Pushed)
           /\ chars > 4 * budget => agent.conversationHistory # Pushed
           /\ chars <= 4 * budget => agent.conversationHistory = Pushed

\* An addMessage that left one character more than four times the budget,
\* an estimate a quarter of a token over the budget, reset the history.
C23_Witness ==
    /\ lastOp.op = "addMessage"
    /\ TotalChars(Pushed) = 4 * agent.maxContextTokens + 1
    /\ agent.conversationHistory = ResetHistory(Pushed)

\* An addMessage that left an estimate equal to the budget appended only.
C23_WitnessAtBudget ==
    /\ lastOp.op = "addMessage"
    /\ TotalChars(Pushed) = 4 * agent.maxContextTokens
    /\ Len(Pushed) > 1
    /\ agent.conversationHistory = Pushed

----------------------------------------------------------------------------
(* SpecExport: a client that changes the model and the system prompt, adds *)
(* and clears messages, exports the history and imports a text.            *)

\* SpecExport offers addMessage only while the history is shorter than this.
MaxExportHistory == 1

ExportModels == {"mistral", "", UNDEF}

ExportPrompts == {"Be brief.", ""}

ExportMessages ==
    {[role |-> "user", content |-> <<"hi">>],
     [role |-> "assistant", content |-> <<"ok", "\n">>]}

\* Texts that no export of this agent produced: one that is not JSON, the
\* text null, and documents that lack some of the keys.
ForeignTexts ==
    {[json |-> FALSE],
     NullText,
     [json |-> TRUE, doc |-> <<>>],
     [json |-> TRUE, doc |-> [model |-> "codellama"]],
     [json |-> TRUE, doc |-> [systemPrompt |-> "Be kind.",
                              history |-> <<[role |-> "user", content |-> <<"yo">>]>>]]}

InitExport ==
    /\ agent = NewAgent([model |-> UNDEF, systemPrompt |-> UNDEF,
                         maxContextTokens |-> BigBudget, enableTools |-> TRUE])
    /\ lastOp = NoOp
    /\ blob = NoBlob
    /\ scan = NoScan
    /\ tools = NewTools
    /\ turn = NoTurn
    /\ agents = NoSessions
    /\ reply = NoReply

ExportAddMessage(msg) ==
    /\ Len(agent.conversationHistory) < MaxExportHistory
    /\ agent' = AddMessage(agent, msg.role, msg.content)
    /\ lastOp' = [NoOp EXCEPT !.op = "addMessage", !.role = msg.role,
                              !.content = msg.content]
    /\ UNCHANGED <<blob, scan, runVars, webVars>>

CallSetModel(m) ==
    /\ agent' = SetModel(agent, m)
    /\ lastOp' = [NoOp EXCEPT !.op = "setModel", !.arg = m]
    /\ UNCHANGED <<blob, scan, runVars, webVars>>

CallSetSystemPrompt(prompt) ==
    /\ agent' = SetSystemPrompt(agent, prompt)
    /\ lastOp' = [NoOp EXCEPT !.op = "setSystemPrompt", !.arg = prompt]
    /\ UNCHANGED <<blob, scan, runVars, webVars>>

CallExportHistory ==
    /\ blob' = [text |-> ExportHistory(agent), of |-> agent]
    /\ lastOp' = [NoOp EXCEPT !.op = "exportHistory"]
    /\ UNCHANGED <<agent, scan, runVars, webVars>>

CallImportHistory(text) ==
    LET r == ImportHistory(agent, text)
    IN /\ agent' = r.agent
       /\ lastOp' = [NoOp EXCEPT !.op = "importHistory", !.arg = text,
                                 !.threw = r.threw, !.before = agent]
       /\ UNCHANGED <<blob, scan, runVars, webVars>>

NextExport ==
    \/ \E msg \in ExportMessages : ExportAddMessage(msg)
    \/ CallClearHistory
    \/ \E m \in ExportModels : CallSetModel(m)
    \/ \E prompt \in ExportPrompts : CallSetSystemPrompt(prompt)
    \/ CallExportHistory
    \/ \E text \in ForeignTexts \cup {blob.text} : CallImportHistory(text)

SpecExport == InitExport /\ [][NextExport]_vars

\* {model, systemPrompt, history} of an agent
Triple(a) == <<a.model, a.systemPrompt, a.conversationHistory>>

\* The last operation imported the text of the last export, into an agent whose
\* model, system prompt and history were those the export was made of.
ImportedOwnExport ==
    /\ lastOp.op = "importHistory"
    /\ blob.of # NoAgent
    /\ lastOp.arg = blob.text
    /\ Triple(lastOp.before) = Triple(blob.of)

\* C9: exportHistory followed by importHistory of the text produced, on an agent
\* not touched in between, succeeds and leaves the model, the system prompt and
\* the history as they were.
C9_RoundTrip ==
    ImportedOwnExport =>
        /\ ~lastOp.threw
        /\ Triple(agent) = Triple(lastOp.before)

\* A round trip of an agent whose model is undefined (left out of the export),
\* whose system prompt is the empty string, and whose history is not empty.
C9_Witness ==
    /\ ImportedOwnExport
    /\ lastOp.before.model = UNDEF
    /\ lastOp.before.systemPrompt = ""
    /\ lastOp.before.conversationHistory # <<>>

\* A round trip of an agent with an empty history.
C9_WitnessEmpty ==
    /\ ImportedOwnExport
    /\ lastOp.before.conversationHistory = <<>>

\* C25: importHistory fails when the text is not well-formed JSON, and
\* whenever it fails the model, the system prompt and the conversation
\* history of the agent are exactly as they were before the call.
C25_FailedImportChangesNothing ==
    lastOp.op = "importHistory" =>
        /\ ~lastOp.arg.json => lastOp.threw
        /\ lastOp.threw => /\ Triple(agent) = Triple(lastOp.before)
                           /\ agent = lastOp.before

\* An import of a text that is not JSON failed on an agent whose model,
\* system prompt and history had been set, and left all three.
C25_Witness ==
    /\ lastOp.op = "importHistory"
    /\ lastOp.arg = [json |-> FALSE]
    /\ lastOp.threw
    /\ agent.model = "mistral"
    /\ agent.systemPrompt = "Be brief."
    /\ Len(agent.conversationHistory) = 1

\* An import of the text null failed after JSON.parse had returned.
C25_WitnessNull ==
    /\ lastOp.op = "importHistory"
    /\ lastOp.arg = NullText
    /\ lastOp.threw
    /\ Len(agent.conversationHistory) = 1

----------------------------------------------------------------------------
(* SpecExtract: an assistant text is written piece by piece (plain text,   *)
(* complete tool-call markers, stray tags), then extractToolCalls is       *)
(* called on it, twice.                                                    *)

\* The pieces a text is made of, at most.
MaxPieces == 4

PlainTokens == {"Sure", "\n"}

StrayTokens == {TagOpen, FnClose, ArgOpen, TagClose}

\* What the markers ask for: a function name and the text of its arguments.
MarkerCalls ==
    {[name |-> "list_directory", args |-> ListArgsText],
     [name |-> "execute_command", args |-> CommandArgsText],
     [name |-> "get_current_directory", args |-> "{}"]}

MarkerLayouts == {"compact", "lines", "padded", "split"}

\* The markers written: each call in one or two of the layouts.
Markers ==
    {m \in MarkerCalls \X MarkerLayouts :
        \/ m[1].name = "list_directory" /\ m[2] \in {"lines", "split"}
        \/ m[1].name = "execute_command" /\ m[2] = "compact"
        \/ m[1].name = "get_current_directory" /\ m[2] = "padded"}

\* The text of a marker.
MarkerText(call, layout) ==
    CASE layout = "compact" ->
            <<TagOpen, FnOpen, call.name, FnClose, ArgOpen, call.args, ArgClose, TagClose>>
      [] layout = "lines" ->
            <<TagOpen, "\n", FnOpen, call.name, FnClose, "\n",
              ArgOpen, call.args, ArgClose, "\n", TagClose>>
      [] layout = "padded" ->
            <<TagOpen, " ", "\n", FnOpen, " ", call.name, "\n", FnClose,
              ArgOpen, "\n", call.args, " ", ArgClose, TagClose>>
      [] layout = "split" ->
            <<TagOpenHead, TagOpenTail, "\n", FnOpen, call.name, FnClose, "\n",
              ArgOpen, call.args, ArgClose, "\n", TagClose>>

InitExtract ==
    /\ agent = NoAgent
    /\ lastOp = NoOp
    /\ blob = NoBlob
    /\ scan = NoScan
    /\ tools = NewTools
    /\ turn = NoTurn
    /\ agents = NoSessions
    /\ reply = NoReply

WritePlain(tok) ==
    /\ scan.calls = 0
    /\ scan.pieces < MaxPieces
    /\ scan' = [scan EXCEPT !.text = Cat(@, <<tok>>), !.pieces = @ + 1]
    /\ UNCHANGED <<convVars, runVars, webVars>>

WriteMarker(call, layout) ==
    /\ scan.calls = 0
    /\ scan.pieces < MaxPieces
    /\ scan' = [scan EXCEPT
                    !.text = Cat(@, MarkerText(call, layout)),
                    !.pieces = @ + 1,
                    !.markers = Append(@, [name |-> <<call.name>>,
                                           arguments |-> JsonDecode(call.args)])]
    /\ UNCHANGED <<convVars, runVars, webVars>>

WriteStray(tok) ==
    /\ scan.calls = 0
    /\ scan.pieces < MaxPieces
    /\ scan' = [scan EXCEPT !.text = Cat(@, <<tok>>), !.pieces = @ + 1,
                            !.clean = FALSE]
    /\ UNCHANGED <<convVars, runVars, webVars>>

CallExtract ==
    /\ scan.calls < 2
    /\ scan' = [scan EXCEPT
                    !.calls = @ + 1,
                    !.first = IF scan.calls = 0 THEN ExtractToolCalls(scan.text) ELSE @,
                    !.second = IF scan.calls = 1 THEN ExtractToolCalls(scan.text) ELSE @]
    /\ UNCHANGED <<convVars, runVars, webVars>>

NextExtract ==
    \/ \E tok \in PlainTokens : WritePlain(tok)
    \/ \E m \in Markers : WriteMarker(m[1], m[2])
    \/ \E tok \in StrayTokens : WriteStray(tok)
    \/ CallExtract

SpecExtract == InitExtract /\ [][NextExtract]_vars

----------------------------------------------------------------------------
(* SpecExec: a client that calls the command executor in its two modes and *)
(* executeTool, one call after the other, and a child process that exits,  *)
(* writes, or runs until the timeout.                                      *)

\* The number of calls the client makes.
MaxCalls == 2

\* The number of pieces of output a child writes in streaming mode.
MaxOutput == 1

ExecCommands ==
    {CmdList, CmdSleep, CmdRmRoot, CmdRmUpper, CmdRmSplit, CmdForkBomb,
     CmdShutdown, CmdMkfs, Undefined}

\* The tool calls the client makes: name and arguments.
ExecToolCalls ==
    {[name |-> <<"execute_command">>, args |-> JsObject([command |-> c])] :
        c \in {CmdList, CmdRmRoot, CmdRmUpper}}
    \cup {[name |-> <<"execute_command">>, args |-> EmptyObject],
          [name |-> <<"execute_command">>, args |-> JsNull],
          [name |-> <<"list_directory">>, args |-> JsonDecode(ListArgsText)],
          [name |-> <<"read_file">>, args |-> JsonDecode(ReadArgsText)],
          [name |-> <<"read_file">>, args |-> EmptyObject],
          [name |-> <<"write_file">>, args |-> JsonDecode(WriteArgsText)],
          [name |-> <<"write_file">>, args |-> JsonDecode(ReadArgsText)],
          [name |-> <<"get_system_info">>, args |-> EmptyObject],
          [name |-> <<"get_current_directory">>, args |-> JsNull],
          [name |-> <<"format_disk">>, args |-> EmptyObject],
          [name |-> <<"Read_File">>, args |-> JsonDecode(ReadArgsText)],
          [name |-> <<"execute_command", " ">>, args |-> JsObject([command |-> CmdList])]}

\* The exit codes of a child that was not killed.
ExitCodes == {"0", "3"}

FsOutcomes == {"short", "long", "failed"}

InitExec ==
    /\ agent = NewAgent([model |-> UNDEF, systemPrompt |-> UNDEF,
                         maxContextTokens |-> DefaultMaxContextTokens,
                         enableTools |-> TRUE])
    /\ lastOp = NoOp
    /\ blob = NoBlob
    /\ scan = NoScan
    /\ tools = NewTools
    /\ turn = NoTurn
    /\ agents = NoSessions
    /\ reply = NoReply

\* The agent, the executor and the turn as they are.
World == [agent |-> agent, tools |-> tools, turn |-> turn]

\* ... and as a handler leaves them.
Becomes(w) ==
    /\ agent' = w.agent
    /\ tools' = w.tools
    /\ turn' = w.turn

\* The client makes its calls one after the other: the call before has
\* returned or thrown, its child has closed and its timer has fired.
CanCall ==
    /\ tools.started < MaxCalls
    /\ tools.call.pc # "awaiting"
    /\ tools.proc \in {"none", "closed"}
    /\ tools.timer # "armed"

\* The executor as a new call finds it.
NewCall(w, api, command) ==
    [w EXCEPT !.tools.call = [NoCall EXCEPT !.api = api, !.command = command],
              !.tools.proc = "none",
              !.tools.timer = "none",
              !.tools.started = @ + 1]

CallExecuteCommand(command) ==
    /\ CanCall
    /\ Becomes(ExecuteCommand(NewCall(World, "executeCommand", command), command))
    /\ UNCHANGED <<lastOp, blob, scan, webVars>>

CallExecuteCommandStream(command) ==
    /\ CanCall
    /\ Becomes(ExecuteCommandStream(NewCall(World, "executeCommandStream", command),
                                     command))
    /\ UNCHANGED <<lastOp, blob, scan, webVars>>

CallExecuteTool(toolCall) ==
    /\ CanCall
    /\ Becomes(ExecuteTool(NewCall(World, "executeTool", <<>>), "client",
                            toolCall.name, toolCall.args))
    /\ UNCHANGED <<lastOp, blob, scan, webVars>>

\* The child exits by itself.
ProcExits(code) ==
    /\ tools.proc = "running"
    /\ Becomes(Microtasks(OnProcExit(World, code)))
    /\ UNCHANGED <<lastOp, blob, scan, webVars>>

\* The timeout passes: 30 seconds in buffered mode, where it is cleared when
\* the child exits; 60 seconds in streaming mode, where it is never cleared.
Timeout ==
    /\ tools.timer = "armed"
    /\ Becomes(OnTimeout(World))
    /\ UNCHANGED <<lastOp, blob, scan, webVars>>

\* The child that was killed closes.
KilledCloses ==
    /\ tools.proc = "killed"
    /\ Becomes(Microtasks(OnKilledClose(World)))
    /\ UNCHANGED <<lastOp, blob, scan, webVars>>

\* Streaming mode: the child writes; what it wrote before it was killed may
\* arrive after.
Stdout ==
    /\ tools.call.api = "executeCommandStream"
    /\ tools.proc \in {"running", "killed"}
    /\ Len(tools.onData) < MaxOutput
    /\ Becomes(OnStdout(World, <<"out">>))
    /\ UNCHANGED <<lastOp, blob, scan, webVars>>

\* The file-system primitive finishes.
FsDone(outcome) ==
    /\ tools.call.pc = "awaiting"
    /\ tools.call.io = "fs"
    /\ Becomes(Microtasks(OnFsDone(World, outcome)))
    /\ UNCHANGED <<lastOp, blob, scan, webVars>>

NextExec ==
    \/ \E command \in ExecCommands : CallExecuteCommand(command)
    \/ \E command \in ExecCommands : CallExecuteCommandStream(command)
    \/ \E toolCall \in ExecToolCalls : CallExecuteTool(toolCall)
    \/ \E code \in ExitCodes : ProcExits(code)
    \/ Timeout
    \/ KilledCloses
    \/ Stdout
    \/ \E outcome \in FsOutcomes : FsDone(outcome)

SpecExec == InitExec /\ [][NextExec]_vars

\* The call under way, or the last one made, runs a command:
\* executeCommand, executeCommandStream, or the tool execute_command.
IsCommandCall ==
    \/ tools.call.api \in {"executeCommand", "executeCommandStream"}
    \/ tools.call.api = "executeTool" /\ tools.call.name = <<"execute_command">>

\* The record executeTool made of the call under way.
LastToolRecord == agent.toolCallHistory[Len(agent.toolCallHistory)]

\* C7: a command that matches the denylist is never given to a child process:
\* the call throws the security error, no process is spawned and no timeout
\* is armed for it, in buffered mode, in streaming mode and through the tool
\* execute_command, whose record then says success = false.
C7_DenylistedNeverSpawns ==
    /\ \A i \in DOMAIN tools.spawnLog : ~IsDangerousCommand(tools.spawnLog[i])
    /\ (IsCommandCall /\ IsDangerousCommand(tools.call.command)) =>
          /\ tools.call.pc = "threw"
          /\ tools.call.error = SecurityError
          /\ ~tools.call.spawned
          /\ ~tools.call.timerArmed
          /\ tools.proc = "none"
          /\ tools.timer = "none"
          /\ tools.call.api = "executeTool" =>
                /\ ~LastToolRecord.success
                /\ LastToolRecord.error = SecurityError

\* The tool execute_command was refused a recursive delete written in upper
\* case, after a call whose command was spawned.
C7_Witness ==
    /\ tools.call.api = "executeTool"
    /\ tools.call.name = <<"execute_command">>
    /\ tools.call.command = CmdRmUpper
    /\ tools.call.pc = "threw"
    /\ Len(tools.spawnLog) = 1

\* C8 as stated: a call whose command ran into the timeout and was killed
\* ends by throwing the timeout error, in buffered and in streaming mode, and
\* a tool call execute_command that timed out is recorded with success = false.
C8_TimeoutFails ==
    (IsCommandCall /\ tools.call.timedOut /\ tools.call.pc \in {"returned", "threw"}) =>
        /\ tools.call.pc = "threw"
        /\ tools.call.error = TimeoutError
        /\ tools.call.api = "executeTool" => ~LastToolRecord.success

\* The tool execute_command ran into the timeout, its child was killed, and
\* the call returned an execution with the exit code 1, recorded as a success.
C8_Witness ==
    /\ tools.call.api = "executeTool"
    /\ tools.call.timedOut
    /\ tools.call.pc = "returned"
    /\ tools.call.value.exitCode = "1"
    /\ LastToolRecord.success

\* The call under way is executeCommand, made by the client or by the tool
\* execute_command.
IsBufferedCall ==
    \/ tools.call.api = "executeCommand"
    \/ tools.call.api = "executeTool" /\ tools.call.name = <<"execute_command">>

----------------------------------------------------------------------------
(* SpecAudit: a client whose every call is an invocation of the command    *)
(* executor: executeCommand, executeCommandStream, or the tool             *)
(* execute_command with a command.  tools.started counts the invocations.  *)

AuditCommands == {CmdList, CmdSleep, CmdRmRoot}

AuditToolCalls ==
    {[name |-> <<"execute_command">>, args |-> JsObject([command |-> c])] :
        c \in {CmdList, CmdRmRoot}}

NextAudit ==
    \/ \E command \in AuditCommands : CallExecuteCommand(command)
    \/ \E command \in AuditCommands : CallExecuteCommandStream(command)
    \/ \E toolCall \in AuditToolCalls : CallExecuteTool(toolCall)
    \/ \E code \in ExitCodes : ProcExits(code)
    \/ Timeout
    \/ KilledCloses
    \/ Stdout

SpecAudit == InitExec /\ [][NextAudit]_vars

\* No call is waiting and no child process is left: every invocation made
\* has returned or thrown, and its child, if it had one, has closed.
AllSettled ==
    /\ tools.call.pc # "awaiting"
    /\ tools.proc \in {"none", "closed"}

\* C27: every invocation of the command executor, whether it succeeds or
\* fails (a command on the denylist, a command that times out), in buffered
\* and in streaming mode, appends exactly one entry to the execution
\* history: once the invocations made are over, the history has one entry
\* for each.
C27_OneEntryPerInvocation ==
    AllSettled => Len(tools.executionHistory) = tools.started

\* One invocation was made, of a command on the denylist: it threw the
\* security error and the execution history is empty.
C27_Witness ==
    /\ tools.started = 1
    /\ tools.call.pc = "threw"
    /\ tools.call.error = SecurityError
    /\ tools.executionHistory = <<>>

----------------------------------------------------------------------------
(* SpecTurn: a client that calls streamChat and switches the tools on and  *)
(* off, an inference server that refuses a request or streams lines, with  *)
(* the done fragment as the last one when it sends it, over a connection   *)
(* that may end or break at any point, and the child processes and file    *)
(* operations of the tools.                                                *)

\* streamChat is offered only while the history is shorter than this.
MaxTurnStart == 1

\* The number of lines before the done fragment the server sends in the first
\* stream, and in the follow-up stream.
MaxLines == 2

MaxFollowUpLines == 1

TurnBudgets == {SmallBudget, DefaultMaxContextTokens}

UserMessages == {<<"list", " ", "files">>}

\* options.executeTools
ExecuteToolsOptions == {"undefined", "false"}

\* A well-formed tool-call marker.
Marker(name, argsText) ==
    <<TagOpen, FnOpen, name, FnClose, ArgOpen, argsText, ArgClose, TagClose>>

\* The content deltas of the first response: prose, whole markers (a file
\* tool, an unknown tool) and the marker of a command in two halves.
Deltas ==
    {<<"Sure">>,
     Marker("list_directory", ListArgsText),
     Marker("format_disk", "{}"),
     <<TagOpen, FnOpen, "execute_command", FnClose>>,
     <<ArgOpen, CommandArgsText, ArgClose, TagClose>>}

\* The content deltas of the follow-up response.
FollowUpDeltas ==
    {<<"Here", " ", "are", " ", "the", " ", "files">>,
     Marker("get_current_directory", "{}")}

DoneFragment == Fragment(<<>>, TRUE, 3, 5)

\* The done fragment of the follow-up response: a longer prompt was evaluated.
FollowUpDoneFragment == Fragment(<<>>, TRUE, 20, 7)

\* How the file operations of a turn's tools finish.
TurnFsOutcomes == {"short", "failed"}

\* What a data event carries: one line, or a content line and the done
\* fragment after it.
ChunksWith(deltas, last) ==
    {<<Fragment(d, FALSE, 0, 0)>> : d \in deltas}
    \cup {<<InvalidLine>>, <<last>>}
    \cup {<<Fragment(d, FALSE, 0, 0), last>> : d \in deltas}

ChunksOf(deltas) == ChunksWith(deltas, DoneFragment)

FollowUpChunks == ChunksWith(FollowUpDeltas, FollowUpDoneFragment)

\* The lines of a chunk that come before the done fragment.
Before(lines) == Len(SelectSeq(lines, LAMBDA l : ~l.json \/ ~l.done))

InitTurn ==
    /\ \E b \in TurnBudgets, e \in BOOLEAN :
          agent = NewAgent([model |-> UNDEF, systemPrompt |-> UNDEF,
                            maxContextTokens |-> b, enableTools |-> e])
    /\ lastOp = NoOp
    /\ blob = NoBlob
    /\ scan = NoScan
    /\ tools = NewTools
    /\ turn = NoTurn
    /\ agents = NoSessions
    /\ reply = NoReply

CallStreamChat(userMessage, executeTools) ==
    /\ turn.flow \in {"idle", "over"}
    /\ Len(agent.conversationHistory) < MaxTurnStart
    /\ Becomes(StreamChat(World, userMessage, executeTools))
    /\ UNCHANGED <<lastOp, blob, scan, webVars>>

CallSetToolsEnabled ==
    /\ agent' = SetToolsEnabled(agent, ~agent.enableTools)
    /\ UNCHANGED <<lastOp, blob, scan, runVars, webVars>>

ServerResponds ==
    /\ turn.stream1 = "requested"
    /\ Becomes(OnResponse(World))
    /\ UNCHANGED <<lastOp, blob, scan, webVars>>

ServerRefuses ==
    /\ turn.stream1 = "requested"
    /\ Becomes(OnRequestFailed(World))
    /\ UNCHANGED <<lastOp, blob, scan, webVars>>

ServerSends(lines) ==
    /\ turn.stream1 = "open"
    /\ turn.doneSeen = 0
    /\ turn.sent1 + Before(lines) <= MaxLines
    /\ Becomes(OnData([World EXCEPT !.turn.sent1 = @ + Before(lines)], lines))
    /\ UNCHANGED <<lastOp, blob, scan, webVars>>

StreamBreaks ==
    /\ turn.stream1 = "open"
    /\ Becomes(OnStreamError(World))
    /\ UNCHANGED <<lastOp, blob, scan, webVars>>

StreamEnds ==
    /\ turn.stream1 = "open"
    /\ Becomes(OnStreamEnd(World))
    /\ UNCHANGED <<lastOp, blob, scan, webVars>>

FollowUpResponds ==
    /\ turn.stream2 = "requested"
    /\ Becomes(OnFollowUpResponse(World))
    /\ UNCHANGED <<lastOp, blob, scan, webVars>>

FollowUpRefused ==
    /\ turn.stream2 = "requested"
    /\ Becomes(OnFollowUpFailed(World))
    /\ UNCHANGED <<lastOp, blob, scan, webVars>>

FollowUpSends(lines) ==
    /\ turn.stream2 = "open"
    /\ turn.doneSeen2 = 0
    /\ turn.sent2 + Before(lines) <= MaxFollowUpLines
    /\ Becomes(OnFollowUpData([World EXCEPT !.turn.sent2 = @ + Before(lines)], lines))
    /\ UNCHANGED <<lastOp, blob, scan, webVars>>

FollowUpBreaks ==
    /\ turn.stream2 = "open"
    /\ Becomes(OnFollowUpError(World))
    /\ UNCHANGED <<lastOp, blob, scan, webVars>>

FollowUpEnds ==
    /\ turn.stream2 = "open"
    /\ Becomes(OnFollowUpEnd(World))
    /\ UNCHANGED <<lastOp, blob, scan, webVars>>

NextTurn ==
    \/ \E m \in UserMessages, o \in ExecuteToolsOptions : CallStreamChat(m, o)
    \/ CallSetToolsEnabled
    \/ ServerResponds
    \/ ServerRefuses
    \/ \E lines \in ChunksOf(Deltas) : ServerSends(lines)
    \/ StreamBreaks
    \/ StreamEnds
    \/ FollowUpResponds
    \/ FollowUpRefused
    \/ \E lines \in FollowUpChunks : FollowUpSends(lines)
    \/ FollowUpBreaks
    \/ FollowUpEnds
    \/ \E code \in ExitCodes : ProcExits(code)
    \/ Timeout
    \/ KilledCloses
    \/ \E outcome \in TurnFsOutcomes : FsDone(outcome)

SpecTurn == InitTurn /\ [][NextTurn]_vars

\* The done fragment of the first stream has been processed.
DoneProcessed == turn.doneSeen > 0

\* What the done handler tested: a tool call found, the tools enabled at that
\* moment, the caller not opted out.
ToolsWanted ==
    /\ turn.observed.found > 0
    /\ turn.observed.enableTools
    /\ turn.executeTools # "false"

Last(seq) == seq[Len(seq)]

UserCommit == [role |-> "user", content |-> turn.userMessage]

\* The turn took the tool branch for a first response that holds one
\* list_directory marker, the tool returned, and the follow-up request
\* produced a non-empty text and its done fragment.
OneListCallTurn ==
    /\ DoneProcessed
    /\ ToolsWanted
    /\ Len(turn.toolCalls) = 1
    /\ turn.toolCalls[1].name = <<"list_directory">>
    /\ Len(turn.results) = 1
    /\ turn.results[1].kind = "result"
    /\ turn.doneSeen2 > 0
    /\ turn.followUp # <<>>

\* C2 as stated: a turn whose first response holds exactly one well-formed
\* list_directory marker (tools enabled, caller not opted out) executes the
\* tool once, forwards a preview of the result, issues exactly one follow-up
\* request, and resolves with one tool call and with the text of the
\* follow-up response as its message.
C2_ResolvesWithSummary ==
    (OneListCallTurn /\ turn.promise = "resolved") =>
        /\ Len(turn.dispatched) = 1
        /\ \E i \in DOMAIN turn.chunks :
              turn.chunks[i].text = ResultChunk(turn.results[1].text)
        /\ Len(turn.requests) = 2
        /\ Len(turn.result.toolCalls) = 1
        /\ turn.result.message # <<>>
        /\ turn.result.message = turn.followUp

\* Such a turn resolved, with the first response, marker and all, as its message.
C2_Witness ==
    /\ OneListCallTurn
    /\ turn.promise = "resolved"
    /\ turn.result.message = turn.fullResponse
    /\ turn.result.message # turn.followUp
    /\ Len(turn.result.toolCalls) = 1
    /\ Len(turn.requests) = 2

\* C3: once the done fragment of the first request is processed, tools are
\* executed if and only if a tool call was found, enableTools was true and
\* options.executeTools is not false.  In every other case no tool is
\* executed, no follow-up request is issued, the text accumulated is
\* committed as the assistant message, and the turn resolves with that text
\* and toolCalls = [].
C3_ToolsIffWanted ==
    DoneProcessed =>
        /\ ToolsWanted =>
              /\ turn.toolCalls = ExtractToolCalls(turn.fullResponse)
              /\ Len(turn.dispatched) >= 1
        /\ ~ToolsWanted =>
              /\ turn.dispatched = <<>>
              /\ Len(turn.requests) = 1
              /\ turn.stream2 = "none"
              /\ turn.commits = <<UserCommit,
                                   [role |-> "assistant", content |-> turn.fullResponse]>>
              /\ Last(agent.conversationHistory) =
                     [role |-> "assistant", content |-> turn.fullResponse]
              /\ turn.promise = "resolved"
              /\ turn.result.message = turn.fullResponse
              /\ turn.result.toolCalls = <<>>

\* A tool call was found with the tools enabled, the caller had opted out,
\* and the turn resolved without executing it.
C3_Witness ==
    /\ DoneProcessed
    /\ turn.observed.found > 0
    /\ turn.observed.enableTools
    /\ turn.executeTools = "false"
    /\ turn.promise = "resolved"
    /\ agent.toolCallHistory = <<>>

\* C4: the tool calls of a turn are dispatched one at a time in the order of
\* their markers: the i-th dispatch is that of the i-th extracted call, made
\* when the i - 1 calls before it have returned or failed, none is
\* dispatched twice, and the results list holds one entry per finished call
\* in the same order; when the follow-up request is issued every call has
\* been dispatched and has its entry.
C4_OneAtATimeInOrder ==
    (DoneProcessed /\ ToolsWanted) =>
        /\ turn.toolCalls = ExtractToolCalls(turn.fullResponse)
        /\ Len(turn.dispatched) <= Len(turn.toolCalls)
        /\ \A i \in DOMAIN turn.dispatched :
              /\ turn.dispatched[i].index = i
              /\ turn.dispatched[i].name = turn.toolCalls[i].name
              /\ turn.dispatched[i].finished = i - 1
        /\ Len(turn.results) \in {Len(turn.dispatched) - 1, Len(turn.dispatched)}
        /\ \A j \in DOMAIN turn.results : turn.results[j].tool = turn.toolCalls[j].name
        /\ Len(agent.toolCallHistory) = Len(turn.results)
        /\ Len(turn.requests) = 2 => Len(turn.results) = Len(turn.toolCalls)

\* Two tool calls, the first of which failed: the second was dispatched
\* after it and both have their entry.
C4_Witness ==
    /\ DoneProcessed
    /\ Len(turn.toolCalls) = 2
    /\ Len(turn.dispatched) = 2
    /\ Len(turn.results) = 2
    /\ turn.results[1].kind = "error"
    /\ turn.results[2].kind = "result"
    /\ Len(turn.requests) = 2

\* No event of the turn is outstanding: no request waits for its response,
\* no stream is open, no tool call is awaited.
TurnQuiescent ==
    /\ turn.promise # "none"
    /\ turn.stream1 \notin {"requested", "open"}
    /\ turn.stream2 \notin {"requested", "open"}
    /\ ~(turn.flow = "tool" /\ tools.call.pc = "awaiting")

\* C5 as stated: every turn reaches Done or Failed whatever the server does,
\* a stream that closes without a done fragment included; so a turn for
\* which no event is outstanding has resolved or rejected.
C5_SettlesWhateverTheServer ==
    TurnQuiescent => turn.promise \in {"resolved", "rejected"}

\* The first stream has closed without a done fragment and the turn is
\* pending, with nothing left that could settle it.
C5_Witness ==
    /\ TurnQuiescent
    /\ turn.stream1 = "ended"
    /\ turn.doneSeen = 0
    /\ turn.promise = "pending"

\* The first request failed: it was refused, or its stream broke before a
\* done fragment was processed.
InitialRequestFailed ==
    /\ turn.stream1 \in {"refused", "errored"}
    /\ ~DoneProcessed

\* The history as addMessage left it when it added the user message at the
\* start of the turn.
HistoryAfterUserMessage ==
    AddMessage([agent EXCEPT !.conversationHistory = turn.before],
               "user", turn.userMessage).conversationHistory

\* C6 as stated: if the first request fails, the history is its value before
\* the turn with the user message appended, and nothing else.
C6_OnlyUserMessageAppended ==
    InitialRequestFailed =>
        agent.conversationHistory = Append(turn.before, UserCommit)

\* C6 amended: if the first request fails (refused, or its stream breaks
\* before the done fragment), the turn rejects, the only message it added is
\* the user message, and the history is what addMessage made of it then: the
\* history before with the user message appended, reset when that put it
\* over the budget.
C6_NoAssistantCommitted ==
    InitialRequestFailed =>
        /\ turn.promise = "rejected"
        /\ turn.commits = <<UserCommit>>
        /\ agent.conversationHistory = HistoryAfterUserMessage
        /\ Last(agent.conversationHistory) = UserCommit
        /\ agent.toolCallHistory = <<>>

\* The stream broke after a delta had been forwarded to the caller.
C6_Witness ==
    /\ InitialRequestFailed
    /\ turn.stream1 = "errored"
    /\ turn.fullResponse # <<>>
    /\ \E i \in DOMAIN turn.chunks : turn.chunks[i].kind = "delta1"
    /\ turn.promise = "rejected"


----------------------------------------------------------------------------
(* SpecArgs: a turn with the tools on whose first response holds tool-call  *)
(* markers with arguments blocks of every kind: a text that is not JSON,    *)
(* white space, an array, null, JSON strings whose content is again a JSON  *)
(* text, and an object.  SpecFail: a turn whose markers name a tool that is *)
(* not known, a command on the denylist and a file read that fails or       *)
(* returns.                                                                 *)

\* The arguments blocks the server writes between <arguments> and </arguments>.
ArgsBlocks ==
    {"oops", " ", "[1]", "null", "\"{}\"", QuotedArrayText, QuotedReadArgsText}

ArgsDeltas ==
    {Marker("read_file", block) : block \in ArgsBlocks}
    \cup {Marker("get_current_directory", "{}")}

\* What a data event of the first response carries: a content line with a
\* marker, or the done fragment.
ArgsChunks ==
    {<<Fragment(d, FALSE, 0, 0)>> : d \in ArgsDeltas} \cup {<<DoneFragment>>}

\* The markers of tool calls that fail, of a file read and of a call that
\* returns at once.
FailDeltas ==
    {Marker("format_disk", "{}"),
     Marker("execute_command", RmArgsText),
     Marker("read_file", ReadArgsText),
     Marker("get_current_directory", "{}")}

InitArgs ==
    /\ agent = NewAgent([model |-> UNDEF, systemPrompt |-> UNDEF,
                         maxContextTokens |-> DefaultMaxContextTokens,
                         enableTools |-> TRUE])
    /\ lastOp = NoOp
    /\ blob = NoBlob
    /\ scan = NoScan
    /\ tools = NewTools
    /\ turn = NoTurn
    /\ agents = NoSessions
    /\ reply = NoReply

NextArgs ==
    \/ \E m \in UserMessages : CallStreamChat(m, "undefined")
    \/ ServerResponds
    \/ \E lines \in ArgsChunks : ServerSends(lines)
    \/ StreamBreaks
    \/ FollowUpResponds
    \/ FollowUpRefused
    \/ \E lines \in FollowUpChunks : FollowUpSends(lines)
    \/ FollowUpBreaks
    \/ \E outcome \in TurnFsOutcomes : FsDone(outcome)

SpecArgs == InitArgs /\ [][NextArgs]_vars

NextFail ==
    \/ \E m \in UserMessages : CallStreamChat(m, "undefined")
    \/ ServerResponds
    \/ \E lines \in ChunksOf(FailDeltas) : ServerSends(lines)
    \/ StreamBreaks
    \/ FollowUpResponds
    \/ FollowUpRefused
    \/ \E lines \in FollowUpChunks : FollowUpSends(lines)
    \/ FollowUpBreaks
    \/ \E outcome \in TurnFsOutcomes : FsDone(outcome)

SpecFail == InitArgs /\ [][NextFail]_vars

RECURSIVE BlocksFrom(_, _)
\* The arguments blocks of the markers of a text, in the order of the text.
BlocksFrom(text, from) ==
    LET starts == {i \in from..Len(text) : MatchesAt(text, i)}
    IN IF starts = {} THEN <<>>
       ELSE LET match == MatchAt(text, Least(starts))
            IN <<match.group2>> \o BlocksFrom(text, match.last + 1)

\* The arguments blocks of the first response.
Blocks == BlocksFrom(turn.fullResponse, 1)

\* The block is not valid JSON, or it is and the value is not an object.
NotAnObject(block) ==
    JsonParse(block).threw \/ JsonParse(block).value.t # "object"

\* The block is not valid JSON, or it is and the value is neither an object
\* nor a string (null, an array).
NoObjectInside(block) ==
    JsonParse(block).threw \/ JsonParse(block).value.t \notin {"object", "string"}

\* The block is a JSON string.
IsJsonString(block) ==
    ~JsonParse(block).threw /\ JsonParse(block).value.t = "string"

\* The arguments executeTool was given for the k-th tool call of the turn.
DispatchedArgs(k) == agent.toolCallHistory[k].args

\* Every marker gave a tool call, the turn is rejected only when a stream or
\* the follow-up request failed, and once the tools are through each of them
\* has its place in the results and the follow-up request is made.
MarkersAllRun ==
    DoneProcessed =>
        /\ Len(turn.toolCalls) = Len(Blocks)
        /\ turn.flow # "tool" =>
              /\ Len(turn.results) = Len(turn.toolCalls)
              /\ Len(agent.toolCallHistory) = Len(turn.toolCalls)
              /\ Len(turn.toolCalls) > 0 => Len(turn.requests) = 2
        /\ turn.promise = "rejected" =>
              \/ turn.stream1 = "errored"
              \/ turn.stream2 \in {"refused", "errored"}

\* C11 (as stated): a tool-call marker whose arguments block is not valid
\* JSON, or does not decode to a JSON object, is dispatched with an empty
\* argument object; every marker yields its tool call, the turn does not fail
\* and the other tool calls are run.
C11_NonObjectDispatchedEmpty ==
    /\ MarkersAllRun
    /\ \A k \in 1..Len(agent.toolCallHistory) :
          NotAnObject(Blocks[k]) => DispatchedArgs(k) = EmptyObject

\* C11 (amended): a tool-call marker whose arguments block is not valid JSON,
\* or decodes to a value that is neither an object nor a string, is
\* dispatched with an empty argument object; a block that is a JSON string is
\* dispatched with the value its content decodes to, and with an empty
\* object when the content is not JSON.  Every marker yields its tool call, the turn does not fail and the
\* other tool calls are run.
C11_MalformedDispatchedEmpty ==
    /\ MarkersAllRun
    /\ \A k \in 1..Len(agent.toolCallHistory) :
          /\ NoObjectInside(Blocks[k]) => DispatchedArgs(k) = EmptyObject
          /\ IsJsonString(Blocks[k]) =>
                LET inner == JsonParse(JsonParse(Blocks[k]).value.v)
                IN DispatchedArgs(k) = IF inner.threw THEN EmptyObject
                                       ELSE inner.value

\* A turn whose first marker has a block that is not JSON and whose second
\* one is well formed ran both tools, the first with an empty object, made
\* the follow-up request and resolved.
C11_Witness ==
    /\ Len(Blocks) = 2
    /\ Trim(Blocks[1]) = <<"oops">>
    /\ Len(agent.toolCallHistory) = 2
    /\ DispatchedArgs(1) = EmptyObject
    /\ agent.toolCallHistory[2].function = <<"get_current_directory">>
    /\ agent.toolCallHistory[2].success
    /\ Len(turn.requests) = 2
    /\ turn.promise = "resolved"


\* Whether part is a piece of text.
Contains(text, part) ==
    \E i \in 1..(Len(text) - Len(part) + 1) :
        SubSeq(text, i, i + Len(part) - 1) = part

\* The prompt of the follow-up request: the last message it carries.
FollowUpPrompt == Last(turn.requests[2].messages).content

\* C12: a tool call that fails during a turn (the primitive throws, the tool
\* is not known, the command is on the denylist) does not abort the turn:
\* its error text is in the results list under the tool's name, the turn is
\* not rejected for it, and once the tools are through every tool call of
\* the turn was executed, the follow-up request is made and its prompt
\* carries the error under the tool's name.
C12_FailedToolDoesNotAbort ==
    \A k \in 1..Len(agent.toolCallHistory) :
        LET record == agent.toolCallHistory[k]
        IN ~record.success =>
              /\ Len(turn.results) >= k
              /\ turn.results[k] = [tool |-> turn.toolCalls[k].name,
                                    kind |-> "error", text |-> record.error]
              /\ turn.promise = "rejected" =>
                    \/ turn.stream1 = "errored"
                    \/ turn.stream2 \in {"refused", "errored"}
              /\ turn.flow # "tool" =>
                    /\ Len(agent.toolCallHistory) = Len(turn.toolCalls)
                    /\ Len(turn.results) = Len(turn.toolCalls)
                    /\ Len(turn.requests) = 2
                    /\ turn.stream2 # "none"
                    /\ Contains(FollowUpPrompt,
                                <<"Tool: ">> \o turn.toolCalls[k].name
                                \o <<"\n", "Error: ">> \o record.error \o <<"\n\n">>)

\* A turn of two tool calls, the first a command on the denylist and the
\* second a file read whose primitive threw, made the follow-up request and
\* resolved.
C12_Witness ==
    /\ Len(agent.toolCallHistory) = 2
    /\ agent.toolCallHistory[1].error = SecurityError
    /\ agent.toolCallHistory[2].function = <<"read_file">>
    /\ agent.toolCallHistory[2].error = FsError(<<"read_file">>)
    /\ Len(turn.requests) = 2
    /\ turn.promise = "resolved"

\* A turn whose first tool call was not known and whose second one returned.
C12_WitnessUnknown ==
    /\ Len(agent.toolCallHistory) = 2
    /\ agent.toolCallHistory[1].error = <<"Unknown tool: ", "format_disk">>
    /\ agent.toolCallHistory[2].success
    /\ Len(turn.requests) = 2


----------------------------------------------------------------------------
(* The follow-up request of a turn, in SpecTurn.                            *)

\* The follow-up response is complete and holds a tool-call marker.
MarkerInFollowUp ==
    /\ turn.doneSeen2 > 0
    /\ ExtractToolCalls(turn.followUp) # <<>>

\* C13: the follow-up request of a turn is sent with the plain system
\* prompt, not the one with the tool instructions; a turn makes at most two
\* requests; the tools it runs are the tool calls of its first response, each
\* at most once, and a marker in the follow-up response runs no tool.
C13_FollowUpPlainAndFinal ==
    /\ Len(turn.requests) <= 2
    /\ Len(turn.requests) = 2 =>
          /\ turn.requests[2].messages[1] =
                [role |-> "system", content |-> <<agent.systemPrompt>>]
          /\ ~Contains(turn.requests[2].messages[1].content, <<ToolInstructions>>)
    /\ Len(turn.dispatched) <= Len(turn.toolCalls)
    /\ \A i \in DOMAIN turn.dispatched : turn.dispatched[i].index = i
    /\ Len(agent.toolCallHistory) <= Len(turn.toolCalls)
    /\ turn.toolCalls # <<>> => turn.toolCalls = ExtractToolCalls(turn.fullResponse)
    /\ MarkerInFollowUp =>
          /\ Len(agent.toolCallHistory) = Len(turn.toolCalls)
          /\ turn.flow = "over"

\* A turn with the tools on ran the one tool of its first response, and its
\* follow-up response, a marker of another tool, ended the turn.
C13_Witness ==
    /\ MarkerInFollowUp
    /\ agent.enableTools
    /\ Contains(turn.requests[1].messages[1].content, <<ToolInstructions>>)
    /\ Len(turn.requests) = 2
    /\ Len(agent.toolCallHistory) = 1
    /\ agent.toolCallHistory[1].function = <<"list_directory">>
    /\ turn.promise = "resolved"


\* The turn resolved after it ran tools and took the done fragment of the
\* follow-up response.
ResolvedAfterTools ==
    /\ turn.promise = "resolved"
    /\ Len(turn.dispatched) > 0
    /\ turn.doneSeen2 > 0

\* C14: the total_tokens a turn resolves with is prompt_eval_count +
\* eval_count of the last fragment of the request that ended the turn: of
\* the follow-up request when tools were executed, of the only request
\* otherwise.
C14_TotalTokensOfLastRequest ==
    turn.promise = "resolved" =>
        turn.result.total_tokens =
            IF Len(turn.dispatched) > 0
            THEN turn.parsed2.prompt_eval_count + turn.parsed2.eval_count
            ELSE turn.parsed.prompt_eval_count + turn.parsed.eval_count

\* A turn that ran a tool resolved with the counters of its first request
\* (3 + 5) while the follow-up request's done fragment carried 20 + 7.
C14_Witness ==
    /\ ResolvedAfterTools
    /\ turn.parsed2 = FollowUpDoneFragment
    /\ turn.result.total_tokens = 8


----------------------------------------------------------------------------
(* The records of executeTool, in SpecExec.                                 *)

\* A call of executeTool returns or throws in this step: one that waited for
\* a child process or a file, or one made in this step that did not wait.
ToolCallEnds ==
    /\ tools'.call.api = "executeTool"
    /\ tools'.call.pc \in {"returned", "threw"}
    /\ tools.call.pc = "awaiting" \/ tools'.started # tools.started

\* C15: executeTool appends a record with success = true and the primitive's
\* result when the primitive returns, and a record with success = false and
\* the error message when it throws, and then throws that same error to its
\* caller.
C15_RecordThenReturnOrRethrow ==
    [][ToolCallEnds =>
          LET call == tools'.call
          IN agent'.toolCallHistory =
                Append(agent.toolCallHistory,
                       IF call.pc = "returned"
                       THEN [function |-> call.name, args |-> call.args,
                             success |-> TRUE, result |-> call.value,
                             error |-> <<>>]
                       ELSE [function |-> call.name, args |-> call.args,
                             success |-> FALSE, result |-> NoValue,
                             error |-> call.error])]_vars

\* executeTool threw the security error of a command on the denylist to its
\* caller, after a call that returned the record of a command that ran.
C15_Witness ==
    /\ tools.call.api = "executeTool"
    /\ tools.call.pc = "threw"
    /\ tools.call.error = SecurityError
    /\ Len(agent.toolCallHistory) = 2
    /\ agent.toolCallHistory[1].success
    /\ agent.toolCallHistory[1].result.kind = "execution"
    /\ ~agent.toolCallHistory[2].success
    /\ agent.toolCallHistory[2].error = SecurityError


\* The names executeTool knows.
KnownTools ==
    {<<"execute_command">>, <<"list_directory">>, <<"read_file">>,
     <<"write_file">>, <<"get_system_info">>, <<"get_current_directory">>}

\* executeTool is called in this step with a name it does not know.
UnknownToolCalled ==
    /\ tools'.started # tools.started
    /\ tools'.call.api = "executeTool"
    /\ tools'.call.name \notin KnownTools

\* C16: executeTool called with a name outside the fixed set fails with the
\* 'unknown tool' error and invokes no primitive: no child process is
\* spawned, no command is executed, nothing waits for a file.
C16_UnknownToolRunsNothing ==
    [][UnknownToolCalled =>
          /\ tools'.call.pc = "threw"
          /\ tools'.call.error = <<"Unknown tool: ">> \o tools'.call.name
          /\ tools'.call.io = "none"
          /\ ~tools'.call.spawned
          /\ tools'.proc = "none"
          /\ tools'.timer = "none"
          /\ tools'.spawnLog = tools.spawnLog
          /\ tools'.executionHistory = tools.executionHistory
          /\ ~Last(agent'.toolCallHistory).success]_vars

\* executeTool was called with a name that differs from a known one by its
\* capitals, with arguments that name a file, and threw.
C16_Witness ==
    /\ tools.call.api = "executeTool"
    /\ tools.call.name = <<"Read_File">>
    /\ tools.call.args = JsonDecode(ReadArgsText)
    /\ tools.call.pc = "threw"
    /\ tools.call.error = <<"Unknown tool: ", "Read_File">>


----------------------------------------------------------------------------
(* SpecRecords: the client of SpecExec, who also empties the tool call      *)
(* history at any moment.                                                   *)

CallClearToolCallHistory ==
    /\ agent' = ClearToolCallHistory(agent)
    /\ UNCHANGED <<lastOp, blob, scan, runVars, webVars>>

NextRecords ==
    \/ NextExec
    \/ CallClearToolCallHistory

SpecRecords == InitExec /\ [][NextRecords]_vars

\* Whether the sequence s is the beginning of the sequence t.
IsPrefix(s, t) == Len(s) <= Len(t) /\ SubSeq(t, 1, Len(s)) = s

\* C17 (as stated): the tool call history is append-only across any sequence
\* of public operations: every step leaves the history it found as a prefix
\* of the history it leaves, so no record is changed or removed.
C17_AppendOnly ==
    [][IsPrefix(agent.toolCallHistory, agent'.toolCallHistory)]_vars

\* C17 (amended): every step either leaves the history it found as a prefix
\* of the history it leaves, or leaves the history empty (clearToolCallHistory);
\* the records that are kept are never changed and never change place.
C17_AppendOrClear ==
    [][\/ IsPrefix(agent.toolCallHistory, agent'.toolCallHistory)
       \/ agent'.toolCallHistory = <<>>]_vars

\* Two calls of executeTool, the second one a file read that returned, left
\* two records, the first as the first call made it.
C17_Witness ==
    /\ Len(agent.toolCallHistory) = 2
    /\ agent.toolCallHistory[1].function = <<"get_system_info">>
    /\ agent.toolCallHistory[2].function = <<"read_file">>
    /\ agent.toolCallHistory[2].success

\* The history is empty after a call of executeTool that returned.
C17_WitnessCleared ==
    /\ tools.call.api = "executeTool"
    /\ tools.call.pc = "returned"
    /\ agent.toolCallHistory = <<>>


----------------------------------------------------------------------------
(* The web server: part_001 from line 480 on.  The Map agents takes a       *)
(* session id to the agent of the session; here the agent comes with its    *)
(* SystemTools instance and the streamChat turn it has under way, so a      *)
(* session is a record [agent, tools, turn] and the handlers of the turn    *)
(* apply to it; older is the turn of the chat request before the newest,    *)
(* which goes on when a chat request comes before it is over.  reply is the *)
(* status the last request was answered with.                               *)

\* agents.has(id), agents.get(id) for an id the Map has, agents.set(id, session)
MapHas(map, id) == id \in DOMAIN map

MapGet(map, id) == map[id]

MapSet(map, id, session) ==
    [k \in DOMAIN map \cup {id} |-> IF k = id THEN session ELSE map[k]]

\* Date.now().toString(), the id of a session whose init request names none.
ClockId == "1762380000000"

\* new PrivateAgent({ollamaUrl, model: req.body.model || 'llama2',
\*                   maxContextTokens: req.body.maxContextTokens || 4096})
NewSession(model, maxContextTokens) ==
    [agent |-> NewAgent([model |-> OrElse(model, DefaultModel),
                         systemPrompt |-> UNDEF,
                         maxContextTokens |->
                             IF maxContextTokens = 0 THEN DefaultMaxContextTokens
                             ELSE maxContextTokens,
                         enableTools |-> TRUE]),
     tools |-> NewTools,
     turn |-> NoTurn,
     older |-> NoTurn]

\* res.status(status).json(...) of a route for a session id
Answer(route, id, status) == [status |-> status]

\* The variables of the single agent, which the web server does not have.
coreVars == <<convVars, scan, runVars>>

\* executeTool is offered to a session while its tool call history is
\* shorter than this.
MaxWebToolCalls == 1

\* A session without the logs of the calls its turn made, which are no part
\* of the agent.
Unlogged(session) ==
    [session EXCEPT !.turn.requests = <<>>, !.turn.chunks = <<>>,
                    !.turn.commits = <<>>, !.turn.before = <<>>]

\* POST /api/init: a new agent is made, and when the inference server
\* answers the connection check it is put in the Map under the id.
PostInit(sessionId, model, maxContextTokens, isConnected) ==
    LET id == IF sessionId = UNDEF THEN ClockId ELSE sessionId
        session == NewSession(model, maxContextTokens)
    IN /\ agents' = IF isConnected THEN MapSet(agents, id, session) ELSE agents
       /\ reply' = Answer("init", id, IF isConnected THEN 200 ELSE 503)
       /\ UNCHANGED coreVars

\* POST /api/model
PostModel(sessionId, model) ==
    /\ agents' = IF MapHas(agents, sessionId)
                 THEN [agents EXCEPT ![sessionId].agent = SetModel(@, model)]
                 ELSE agents
    /\ reply' = Answer("model", sessionId,
                       IF MapHas(agents, sessionId) THEN 200 ELSE 404)
    /\ UNCHANGED coreVars

\* POST /api/chat with stream: true.  The handler logs message.substring(0, 50)
\* before it looks the session up, which throws for a body without a
\* message; the answer to a session found is the event stream.  A chat
\* request is made when the turn before it is over, while the histories of
\* the session are short.
PostChat(sessionId, message) ==
    /\ MapHas(agents, sessionId) /\ message # Undefined =>
          /\ MapGet(agents, sessionId).turn.flow \in {"idle", "over"}
          /\ Len(MapGet(agents, sessionId).agent.conversationHistory) < MaxTurnStart
          /\ Len(MapGet(agents, sessionId).agent.toolCallHistory) < MaxWebToolCalls
    /\ agents' = IF MapHas(agents, sessionId) /\ message # Undefined
                 THEN [agents EXCEPT ![sessionId] =
                           Unlogged(StreamChat(@, message, "undefined"))]
                 ELSE agents
    /\ reply' = Answer("chat", sessionId,
                       IF message = Undefined THEN 500
                       ELSE IF MapHas(agents, sessionId) THEN 200 ELSE 404)
    /\ UNCHANGED coreVars

\* A route that looks the session up and reads it: GET /api/history/:sessionId,
\* GET /api/export/:sessionId, GET /api/tools/history/:sessionId
GetOfSession(route, sessionId) ==
    /\ agents' = agents
    /\ reply' = Answer(route, sessionId,
                       IF MapHas(agents, sessionId) THEN 200 ELSE 404)
    /\ UNCHANGED coreVars

\* DELETE /api/history/:sessionId
DeleteHistory(sessionId) ==
    /\ agents' = IF MapHas(agents, sessionId)
                 THEN [agents EXCEPT ![sessionId].agent = ClearHistory(@)]
                 ELSE agents
    /\ reply' = Answer("clear", sessionId,
                       IF MapHas(agents, sessionId) THEN 200 ELSE 404)
    /\ UNCHANGED coreVars

\* The settings of a body: systemPrompt (UNDEF when absent), maxContextTokens
\* (0 when absent), and enableTools when the body has it as a boolean.
Settings(systemPrompt, maxContextTokens, hasEnableTools, enableTools) ==
    [systemPrompt |-> systemPrompt, maxContextTokens |-> maxContextTokens,
     hasEnableTools |-> hasEnableTools, enableTools |-> enableTools]

\* The body of POST /api/settings/:sessionId after the lookup.
ApplySettings(a, body) ==
    LET prompted == IF Falsy(body.systemPrompt) THEN a
                    ELSE SetSystemPrompt(a, body.systemPrompt)
        budgeted == IF body.maxContextTokens = 0 THEN prompted
                    ELSE [prompted EXCEPT !.maxContextTokens = body.maxContextTokens]
    IN IF body.hasEnableTools THEN SetToolsEnabled(budgeted, body.enableTools)
       ELSE budgeted

\* PostSettings as it would be with settings the agents share: the body is
\* applied to every session of the store.
PostSettingsOfAll(sessionId, body) ==
    /\ agents' = IF MapHas(agents, sessionId)
                 THEN [k \in DOMAIN agents |->
                          [agents[k] EXCEPT !.agent = ApplySettings(@, body)]]
                 ELSE agents
    /\ reply' = Answer("settings", sessionId,
                       IF MapHas(agents, sessionId) THEN 200 ELSE 404)
    /\ UNCHANGED coreVars

\* POST /api/settings/:sessionId
PostSettings(sessionId, body) ==
    /\ agents' = IF MapHas(agents, sessionId)
                 THEN [agents EXCEPT ![sessionId].agent = ApplySettings(@, body)]
                 ELSE agents
    /\ reply' = Answer("settings", sessionId,
                       IF MapHas(agents, sessionId) THEN 200 ELSE 404)
    /\ UNCHANGED coreVars

\* POST /api/tools/execute/:sessionId, for a tool that neither spawns a
\* process nor touches a file: the call returns or throws at once.
PostToolsExecute(sessionId, functionName) ==
    LET found == MapHas(agents, sessionId)
        after == ExecuteTool(NewCall(MapGet(agents, sessionId), "executeTool", <<>>),
                             "client", functionName, EmptyObject)
    IN /\ found => Len(MapGet(agents, sessionId).agent.toolCallHistory) < MaxWebToolCalls
       /\ agents' = IF found THEN [agents EXCEPT ![sessionId] = after] ELSE agents
       /\ reply' = Answer("execute", sessionId,
                          IF ~found THEN 404
                          ELSE IF after.tools.call.pc = "returned" THEN 200 ELSE 500)
       /\ UNCHANGED coreVars

\* An event of the turn of a session: the handler leaves the session as after.
InSession(sessionId, after) ==
    /\ agents' = [agents EXCEPT ![sessionId] = Unlogged(after)]
    /\ UNCHANGED <<reply, coreVars>>

SessionResponds(sessionId) ==
    /\ MapHas(agents, sessionId)
    /\ MapGet(agents, sessionId).turn.stream1 = "requested"
    /\ InSession(sessionId, OnResponse(MapGet(agents, sessionId)))

SessionSends(sessionId, lines) ==
    /\ MapHas(agents, sessionId)
    /\ MapGet(agents, sessionId).turn.stream1 = "open"
    /\ MapGet(agents, sessionId).turn.doneSeen = 0
    /\ InSession(sessionId, OnData(MapGet(agents, sessionId), lines))

----------------------------------------------------------------------------
(* SpecWeb: clients that send the requests of the web server for two        *)
(* session ids, one they chose and the one the clock gives, in any order,   *)
(* and an inference server that answers the connection check or not and     *)
(* streams a whole response to each chat request.                           *)

SessionIds == {"s1", ClockId}

WebModels == {UNDEF}

\* The response of the inference server to a chat request: a sentence and
\* the done fragment, in one chunk.
WebChunks == {<<Fragment(<<"Sure">>, FALSE, 0, 0), DoneFragment>>}

WebSettings == {Settings("Be brief.", BigBudget, TRUE, FALSE)}

WebTools == {<<"get_current_directory">>}

ReadRoutes == {"history", "export", "tools/history"}

InitWeb ==
    /\ agent = NoAgent
    /\ lastOp = NoOp
    /\ blob = NoBlob
    /\ scan = NoScan
    /\ tools = NewTools
    /\ turn = NoTurn
    /\ agents = NoSessions
    /\ reply = NoReply

NextWeb ==
    \/ \E sessionId \in {UNDEF, "s1"}, model \in WebModels, isConnected \in BOOLEAN :
          PostInit(sessionId, model, 0, isConnected)
    \/ \E sessionId \in SessionIds : PostModel(sessionId, "mistral")
    \/ \E sessionId \in SessionIds, message \in UserMessages \cup {Undefined} :
          PostChat(sessionId, message)
    \/ \E sessionId \in SessionIds, route \in ReadRoutes : GetOfSession(route, sessionId)
    \/ \E sessionId \in SessionIds : DeleteHistory(sessionId)
    \/ \E sessionId \in SessionIds, body \in WebSettings : PostSettings(sessionId, body)
    \/ \E sessionId \in SessionIds, functionName \in WebTools :
          PostToolsExecute(sessionId, functionName)
    \/ \E sessionId \in SessionIds : SessionResponds(sessionId)
    \/ \E sessionId \in SessionIds, lines \in WebChunks : SessionSends(sessionId, lines)

SpecWeb == InitWeb /\ [][NextWeb]_vars

\* A request of a session-keyed route for the session id: set model, chat,
\* get or export the history, the tool history, clear, settings, execute.
RequestFor(id) ==
    \/ PostModel(id, "mistral")
    \/ \E message \in UserMessages \cup {Undefined} : PostChat(id, message)
    \/ \E route \in ReadRoutes : GetOfSession(route, id)
    \/ DeleteHistory(id)
    \/ \E body \in WebSettings : PostSettings(id, body)
    \/ \E functionName \in WebTools : PostToolsExecute(id, functionName)

\* An init request that names the id, or names none when the clock gives it.
InitFor(id) ==
    \E sessionId \in {UNDEF, "s1"}, model \in WebModels, isConnected \in BOOLEAN :
        /\ id = (IF sessionId = UNDEF THEN ClockId ELSE sessionId)
        /\ PostInit(sessionId, model, 0, isConnected)

\* An event of the chat turn of the session.
TurnEventOf(id) ==
    \/ SessionResponds(id)
    \/ \E lines \in WebChunks : SessionSends(id, lines)

\* C18: every session-keyed request (set model, chat, get, clear or export
\* the history, settings, tool history, tool execution) for a session id
\* the store does not have is answered with not found (404), changes no
\* session and creates none.
C18_UnknownSessionNotFound ==
    [][\A id \in SessionIds :
          ~MapHas(agents, id) /\ RequestFor(id) =>
              reply'.status = 404 /\ agents' = agents]_vars

\* A request was answered 500 while the store has no session at all.
C18_Witness ==
    /\ agents = NoSessions
    /\ reply.status = 500

\* C19: once an init has succeeded for an id, every later request finds the
\* same agent with the conversation state it has accumulated, whatever
\* requests follow, init requests among them, and no session is ever
\* removed: an init request leaves every session of the store as it is.
C19_SessionKeptAcrossInit ==
    [][\A id \in DOMAIN agents :
          /\ MapHas(agents', id)
          /\ InitFor(id) => agents'[id] = agents[id]]_vars

\* The model, system prompt, conversation history, tool setting and tool
\* call history of a session.
SessionFields(session) ==
    [model |-> session.agent.model,
     systemPrompt |-> session.agent.systemPrompt,
     conversationHistory |-> session.agent.conversationHistory,
     enableTools |-> session.agent.enableTools,
     toolCallHistory |-> session.agent.toolCallHistory]

\* C20: a request for one session, or an event of its chat turn, leaves
\* every other session in the store, with its model, system prompt,
\* conversation history, tool setting and tool call history unchanged,
\* whatever the other sessions are in the middle of.
C20_OtherSessionsUnchanged ==
    [][\A id \in SessionIds :
          RequestFor(id) \/ InitFor(id) \/ TurnEventOf(id) =>
              \A other \in DOMAIN agents \ {id} :
                  /\ MapHas(agents', other)
                  /\ SessionFields(agents'[other]) = SessionFields(agents[other])]_vars

\* Session s1 has had a chat turn, a settings change and a tool execution,
\* and the other session, in the middle of its turn, has the fields of a
\* new session but for the message it was sent.
C20_Witness ==
    /\ MapHas(agents, "s1") /\ MapHas(agents, ClockId)
    /\ agents["s1"].turn.flow = "over"
    /\ Len(agents["s1"].agent.conversationHistory) = 2
    /\ agents["s1"].agent.enableTools = FALSE
    /\ agents["s1"].agent.model = "mistral"
    /\ Len(agents["s1"].agent.toolCallHistory) = 1
    /\ agents[ClockId].turn.stream1 = "open"
    /\ Len(agents[ClockId].agent.conversationHistory) = 1
    /\ agents[ClockId].agent.enableTools = TRUE
    /\ agents[ClockId].agent.model = DefaultModel
    /\ agents[ClockId].agent.maxContextTokens = DefaultMaxContextTokens
    /\ agents[ClockId].agent.toolCallHistory = <<>>

\* C24: clearHistory, called by DELETE /api/history/:sessionId, empties the
\* conversation history of the agent and leaves its system prompt, model,
\* token budget, tools-enabled flag and tool call history unchanged.
C24_ClearKeepsTheRest ==
    [][\A id \in SessionIds :
          MapHas(agents, id) /\ DeleteHistory(id) =>
              LET before == agents[id].agent
                  after == agents'[id].agent
              IN /\ after.conversationHistory = <<>>
                 /\ after.systemPrompt = before.systemPrompt
                 /\ after.model = before.model
                 /\ after.maxContextTokens = before.maxContextTokens
                 /\ after.enableTools = before.enableTools
                 /\ after.toolCallHistory = before.toolCallHistory
                 /\ reply'.status = 200]_vars

\* The history of s1 was cleared after its turn was over: it is empty, and
\* the agent has the model, system prompt, budget and tools flag that were
\* set and the record of the tool that was executed.
C24_Witness ==
    /\ MapHas(agents, "s1")
    /\ agents["s1"].turn.flow = "over"
    /\ agents["s1"].agent.conversationHistory = <<>>
    /\ agents["s1"].agent.model = "mistral"
    /\ agents["s1"].agent.systemPrompt = "Be brief."
    /\ agents["s1"].agent.maxContextTokens = BigBudget
    /\ agents["s1"].agent.enableTools = FALSE
    /\ Len(agents["s1"].agent.toolCallHistory) = 1

----------------------------------------------------------------------------
(* SpecOverlap: clients that send a chat request for a session whether or   *)
(* not the turn of the request before it is over.  Both calls of streamChat *)
(* work on the one agent of the session, each with its own response stream  *)
(* and its own fullResponse.                                                *)

\* The session seen from the turn that began first: the handlers of that
\* turn apply to it, and the same exchange puts the session back.
OlderFirst(session) ==
    [session EXCEPT !.turn = session.older, !.older = session.turn]

\* The streamChat call of the session is waiting for its promise.
Unfinished(session) == session.turn.promise = "pending"

\* A chat request during a turn is made while the conversation history of
\* the session is shorter than this.
MaxOverlapStart == 2

\* POST /api/chat for a session whose turn is not over, the turn before that
\* one being over: the handler looks the agent up and calls streamChat.
PostChatAgain(sessionId, message) ==
    /\ MapHas(agents, sessionId)
    /\ Unfinished(MapGet(agents, sessionId))
    /\ Len(MapGet(agents, sessionId).agent.conversationHistory) < MaxOverlapStart
    /\ MapGet(agents, sessionId).older.promise # "pending"
    /\ LET session == MapGet(agents, sessionId)
       IN agents' = [agents EXCEPT ![sessionId] =
                        Unlogged(StreamChat([session EXCEPT !.older = session.turn],
                                            message, "undefined"))]
    /\ reply' = Answer("chat", sessionId, 200)
    /\ UNCHANGED coreVars

\* The events of the turn that began first.
OlderResponds(sessionId) ==
    /\ MapHas(agents, sessionId)
    /\ MapGet(agents, sessionId).older.stream1 = "requested"
    /\ InSession(sessionId,
                 OlderFirst(OnResponse(OlderFirst(MapGet(agents, sessionId)))))

OlderSends(sessionId, lines) ==
    /\ MapHas(agents, sessionId)
    /\ MapGet(agents, sessionId).older.stream1 = "open"
    /\ MapGet(agents, sessionId).older.doneSeen = 0
    /\ InSession(sessionId,
                 OlderFirst(OnData(OlderFirst(MapGet(agents, sessionId)), lines)))

\* The messages of the clients and the responses of the inference server.
OverlapMessages == {<<"list", " ", "files">>, <<"and", " ", "then">>}

OverlapChunks ==
    {<<Fragment(<<"Sure">>, FALSE, 0, 0), DoneFragment>>,
     <<Fragment(<<"Here">>, FALSE, 0, 0), DoneFragment>>}

NextOverlap ==
    \/ \E sessionId \in {UNDEF, "s1"}, isConnected \in BOOLEAN :
          PostInit(sessionId, UNDEF, 0, isConnected)
    \/ \E sessionId \in SessionIds, message \in OverlapMessages :
          PostChat(sessionId, message)
    \/ \E sessionId \in SessionIds, message \in OverlapMessages :
          PostChatAgain(sessionId, message)
    \/ \E sessionId \in SessionIds : SessionResponds(sessionId)
    \/ \E sessionId \in SessionIds, lines \in OverlapChunks :
          SessionSends(sessionId, lines)
    \/ \E sessionId \in SessionIds : OlderResponds(sessionId)
    \/ \E sessionId \in SessionIds, lines \in OverlapChunks :
          OlderSends(sessionId, lines)

SpecOverlap == InitWeb /\ [][NextOverlap]_vars

\* C21: a session never has two turns under way: a chat request for a
\* session whose streamChat turn is unfinished does not start to change the
\* conversation history of the session.
C21_NoTurnStartsDuringTurn ==
    [][\A id \in DOMAIN agents :
          /\ Unfinished(agents[id])
          /\ \E message \in OverlapMessages : PostChatAgain(id, message)
          => agents'[id].agent.conversationHistory
                 = agents[id].agent.conversationHistory]_vars

\* Both turns of session s1 are unfinished and its conversation history
\* holds the user messages of both, one after the other.
C21_Witness ==
    /\ MapHas(agents, "s1")
    /\ agents["s1"].turn.promise = "pending"
    /\ agents["s1"].older.promise = "pending"
    /\ Len(agents["s1"].agent.conversationHistory) = 2
    /\ \A i \in 1..2 : agents["s1"].agent.conversationHistory[i].role = "user"

----------------------------------------------------------------------------
(* SpecLines: a turn whose two streams arrive in network reads that need   *)
(* not end at a newline, and that carry lines that are no JSON.            *)

\* What split('\n') makes of a read: whole lines, and at most the tail of a
\* line the read before has cut and the head of a line this read cuts.
Piece(line, part) == [line |-> line, part |-> part]

Whole(line) == Piece(line, "whole")

\* JSON.parse(line) inside the try block: the head and the tail of a cut
\* JSON object are no JSON, and neither handler keeps a head to put it
\* before the tail.
ParsePiece(piece) == IF piece.part = "whole" THEN piece.line ELSE InvalidLine

\* chunk.toString().split('\n').filter(line => line.trim()), each line parsed
LinesOf(read) == [i \in 1..Len(read) |-> ParsePiece(read[i])]

\* The line whose head the last read ended with, if it ended with one.
CutLine ==
    IF turn.wire # <<>> /\ Last(Last(turn.wire)).part = "head"
    THEN <<Last(Last(turn.wire)).line>>
    ELSE <<>>

\* A read continues the byte stream where the read before stopped.
Continues(read) ==
    IF CutLine = <<>> THEN read[1].part # "tail"
    ELSE read[1] = Piece(CutLine[1], "tail")

\* Each stream is followed for this many reads of the turn.
MaxReads == 3

LineDelta == Fragment(<<"lo">>, FALSE, 0, 0)

\* The reads of the first stream.
LineReads ==
    {<<Whole(Fragment(<<"Hel">>, FALSE, 0, 0))>>,
     <<Whole(InvalidLine), Whole(LineDelta)>>,
     <<Whole(InvalidLine), Whole(DoneFragment)>>,
     <<Whole(Fragment(<<"Hel">>, FALSE, 0, 0)), Piece(LineDelta, "head")>>,
     <<Piece(LineDelta, "tail"), Whole(DoneFragment)>>,
     <<Whole(Fragment(Marker("get_current_directory", "{}"), FALSE, 0, 0)),
       Whole(DoneFragment)>>,
     <<Piece(DoneFragment, "head")>>,
     <<Piece(DoneFragment, "tail")>>}

FollowUpDelta == Fragment(<<"Here">>, FALSE, 0, 0)

\* The reads of the follow-up stream.
FollowUpReadsSent ==
    {<<Whole(InvalidLine), Whole(FollowUpDelta)>>,
     <<Whole(InvalidLine), Whole(FollowUpDoneFragment)>>,
     <<Piece(FollowUpDelta, "head")>>,
     <<Piece(FollowUpDelta, "tail"), Whole(FollowUpDoneFragment)>>,
     <<Whole(FollowUpDoneFragment)>>}

\* A data event of the first stream for a read.
ServerReads(read) ==
    /\ turn.stream1 = "open"
    /\ turn.doneSeen = 0
    /\ Len(turn.wire) < MaxReads
    /\ Continues(read)
    /\ Becomes(OnData([World EXCEPT !.turn.wire = Append(@, read)], LinesOf(read)))
    /\ UNCHANGED <<lastOp, blob, scan, webVars>>

\* A data event of the follow-up stream for a read.
FollowUpReads(read) ==
    /\ turn.stream2 = "open"
    /\ turn.doneSeen2 = 0
    /\ Len(turn.wire) < 2 * MaxReads
    /\ Continues(read)
    /\ Becomes(OnFollowUpData([World EXCEPT !.turn.wire = Append(@, read)],
                              LinesOf(read)))
    /\ UNCHANGED <<lastOp, blob, scan, webVars>>

NextLines ==
    \/ \E m \in UserMessages : CallStreamChat(m, "undefined")
    \/ ServerResponds
    \/ \E read \in LineReads : ServerReads(read)
    \/ FollowUpResponds
    \/ \E read \in FollowUpReadsSent : FollowUpReads(read)

SpecLines == InitArgs /\ [][NextLines]_vars

\* What a turn has made of its streams: the texts accumulated, the chunks
\* forwarded, the messages committed, the tools run, the requests issued and
\* the state of its promise.
Heard(w) ==
    [conversationHistory |-> w.agent.conversationHistory,
     fullResponse |-> w.turn.fullResponse, followUp |-> w.turn.followUp,
     chunks |-> w.turn.chunks, commits |-> w.turn.commits,
     dispatched |-> w.turn.dispatched, requests |-> w.turn.requests,
     promise |-> w.turn.promise, result |-> w.turn.result,
     error |-> w.turn.error]

\* The state a step leaves.
WorldAfter == [agent |-> agent', tools |-> tools', turn |-> turn']

\* The lines of a read that are JSON.
Parsed(read) == SelectSeq(LinesOf(read), LAMBDA line : line.json)

HasInvalidLine(read) == \E i \in 1..Len(read) : read[i] = Whole(InvalidLine)

\* C28: a line of either stream that is no JSON is skipped: the data event
\* that carries it leaves the accumulated text, the conversation history,
\* the chunks forwarded and the promise of the turn as the same event
\* without that line would, the lines after it included.
C28_InvalidLineSkipped ==
    [][/\ \A read \in LineReads :
             HasInvalidLine(read) /\ ServerReads(read) =>
                 Heard(WorldAfter) = Heard(OnData(World, Parsed(read)))
       /\ \A read \in FollowUpReadsSent :
             HasInvalidLine(read) /\ FollowUpReads(read) =>
                 Heard(WorldAfter) = Heard(OnFollowUpData(World, Parsed(read)))]_vars

\* A read of the first stream held an invalid line and a content line after
\* it, and the content line was accumulated and forwarded while the turn
\* stayed pending.
C28_Witness ==
    /\ turn.wire = <<<<Whole(InvalidLine), Whole(LineDelta)>>>>
    /\ turn.fullResponse = LineDelta.content
    /\ Len(turn.chunks) = 1
    /\ turn.promise = "pending"

\* A read of the follow-up stream held an invalid line and the done fragment
\* after it, and the turn resolved.
C28_WitnessFollowUp ==
    /\ turn.wire # <<>>
    /\ Last(turn.wire) = <<Whole(InvalidLine), Whole(FollowUpDoneFragment)>>
    /\ turn.doneSeen2 = 1
    /\ turn.promise = "resolved"

\* The lines of a read as they would be if the tail of a cut line were put
\* after the head kept from the read before.
Joined(read) ==
    [i \in 1..Len(read) |->
        IF read[i].part = "tail" THEN read[i].line ELSE ParsePiece(read[i])]

\* C29: a line cut by the network is buffered: the data event that brings
\* its tail leaves the accumulated text, the chunks forwarded, the history
\* and the promise of the turn as the whole line arriving in that event
\* would.
C29_CutLineReadWhole ==
    [][/\ \A read \in LineReads :
             read[1].part = "tail" /\ ServerReads(read) =>
                 Heard(WorldAfter) = Heard(OnData(World, Joined(read)))
       /\ \A read \in FollowUpReadsSent :
             read[1].part = "tail" /\ FollowUpReads(read) =>
                 Heard(WorldAfter) = Heard(OnFollowUpData(World, Joined(read)))]_vars

\* The server sent three fragments, the second cut between two reads, and
\* the turn resolved with the text of the first alone.
C29_Witness ==
    /\ turn.wire = <<<<Whole(Fragment(<<"Hel">>, FALSE, 0, 0)), Piece(LineDelta, "head")>>,
                     <<Piece(LineDelta, "tail"), Whole(DoneFragment)>>>>
    /\ turn.promise = "resolved"
    /\ turn.result.message = <<"Hel">>
    /\ Len(turn.chunks) = 1

----------------------------------------------------------------------------
(* A turn that has failed, in SpecTurn. *)

\* C30: once the promise of a turn is rejected the turn is over: the promise
\* stays rejected, and the turn commits no further message, executes no
\* further tool and issues no further request.
C30_FailureIsTerminal ==
    [][(/\ turn.promise = "rejected"
        /\ ~ \E m \in UserMessages, o \in ExecuteToolsOptions : CallStreamChat(m, o))
          => /\ turn'.promise = "rejected"
             /\ turn'.error = turn.error
             /\ turn'.commits = turn.commits
             /\ agent'.conversationHistory = agent.conversationHistory
             /\ turn'.dispatched = turn.dispatched
             /\ tools'.started = tools.started
             /\ turn'.requests = turn.requests]_vars

\* The first stream broke while the tools of the turn ran or the follow-up
\* was under way: the turn was rejected, and after that the follow-up stream
\* brought its done fragment and the follow-up text was committed.
C30_Witness ==
    /\ turn.promise = "rejected"
    /\ turn.stream1 = "errored"
    /\ turn.doneSeen2 = 1
    /\ Len(turn.requests) = 2
    /\ Last(turn.commits) = [role |-> "assistant", content |-> turn.followUp]
    /\ Last(agent.conversationHistory).role = "assistant"

----------------------------------------------------------------------------
(* The chunk callback and the two accumulators, in SpecFail. *)

\* The texts of the chunks of one kind, in the order they were forwarded.
Forwarded(chunks, kind) ==
    LET ofKind == SelectSeq(chunks, LAMBDA c : c.kind = kind)
    IN [i \in 1..Len(ofKind) |-> ofKind[i].text]

RECURSIVE CatAll(_)
CatAll(texts) ==
    IF texts = <<>> THEN <<>> ELSE Cat(Head(texts), CatAll(Tail(texts)))

\* The content deltas of the lines of a data event, in the order of the lines.
DeltasOf(lines) ==
    LET heard == SelectSeq(lines, LAMBDA l : l.json /\ l.content # <<>>)
    IN [i \in 1..Len(heard) |-> heard[i].content]

\* C31: a data event forwards the content deltas of its lines to the chunk
\* callback once each and in the order of the lines, as deltas of its own
\* request only, and after every step the accumulator of each request is
\* the concatenation of the deltas forwarded for that request, the progress
\* markers of the tools being part of neither.
C31_AccumulatorIsDeltasForwarded ==
    [][/\ \A lines \in ChunksOf(FailDeltas) :
             ServerSends(lines) =>
                 /\ Forwarded(turn'.chunks, "delta1")
                        = Forwarded(turn.chunks, "delta1") \o DeltasOf(lines)
                 /\ Forwarded(turn'.chunks, "delta2") = Forwarded(turn.chunks, "delta2")
       /\ \A lines \in FollowUpChunks :
             FollowUpSends(lines) =>
                 /\ Forwarded(turn'.chunks, "delta2")
                        = Forwarded(turn.chunks, "delta2") \o DeltasOf(lines)
                 /\ Forwarded(turn'.chunks, "delta1") = Forwarded(turn.chunks, "delta1")
       /\ turn'.fullResponse = CatAll(Forwarded(turn'.chunks, "delta1"))
       /\ turn'.followUp = CatAll(Forwarded(turn'.chunks, "delta2"))]_vars

\* Two deltas of the first request, progress markers of a tool and a delta
\* of the follow-up request have been forwarded.
C31_Witness ==
    /\ Len(Forwarded(turn.chunks, "delta1")) = 2
    /\ Len(Forwarded(turn.chunks, "progress")) > 0
    /\ Len(Forwarded(turn.chunks, "delta2")) = 1
    /\ turn.fullResponse # <<>>
    /\ turn.followUp # <<>>

----------------------------------------------------------------------------
(* The order of the two requests of a turn, in SpecFail. *)

\* A request is in flight from its axios.post until its done fragment has
\* been processed or it has failed.
InFlight1 == turn.stream1 \in {"requested", "open"} /\ turn.doneSeen = 0

InFlight2 == turn.stream2 \in {"requested", "open"} /\ turn.doneSeen2 = 0

\* C32: the follow-up request is issued only once the done fragment of the
\* first request has been processed and every tool call of the turn has
\* finished, and the two requests are never in flight together.
C32_RequestsSequential ==
    [][/\ (turn.stream2 = "none" /\ turn'.stream2 = "requested") =>
             /\ turn'.doneSeen = 1
             /\ Len(turn'.toolCalls) > 0
             /\ Len(turn'.results) = Len(turn'.toolCalls)
             /\ Len(turn'.dispatched) = Len(turn'.toolCalls)
             /\ tools'.call.pc \in {"returned", "threw"}
             /\ Len(turn'.requests) = 2
       /\ ~ (turn'.stream2 # "none" /\ turn'.doneSeen = 0)
       /\ ~ (turn'.stream1 \in {"requested", "open"} /\ turn'.doneSeen = 0
             /\ turn'.stream2 \in {"requested", "open"} /\ turn'.doneSeen2 = 0)]_vars

\* The follow-up request of a turn with two tool calls is in flight.
C32_Witness ==
    /\ InFlight2
    /\ ~InFlight1
    /\ Len(turn.toolCalls) = 2
    /\ Len(turn.results) = 2
    /\ Len(turn.requests) = 2

----------------------------------------------------------------------------
(* What a turn that resolved has added to the history, in SpecTurn. *)

\* The messages a resolved turn is to add: four with tools, two without.
TurnMessages ==
    IF ToolsWanted
    THEN <<[role |-> "user", content |-> turn.userMessage],
           [role |-> "assistant", content |-> turn.fullResponse],
           [role |-> "user", content |-> BuildToolResultPrompt(turn.results)],
           [role |-> "assistant", content |-> turn.followUp]>>
    ELSE <<[role |-> "user", content |-> turn.userMessage],
           [role |-> "assistant", content |-> turn.fullResponse]>>

NoResetInTurn == agent.maxContextTokens = DefaultMaxContextTokens

\* C33: a turn that resolved has added, in this order and nothing else, the
\* user message, the first response, and when it ran tools the user-role
\* message with the tool results and the instruction, and the follow-up
\* response; where no addMessage of the turn reset the context, the history
\* is the history before the turn with these messages appended.
C33_TurnAppendsInOrder ==
    turn.promise = "resolved" =>
        /\ turn.commits = TurnMessages
        /\ ToolsWanted => /\ Len(ExtractToolCalls(turn.commits[2].content)) > 0
                          /\ Len(turn.results) = Len(turn.toolCalls)
        /\ NoResetInTurn => agent.conversationHistory = turn.before \o TurnMessages

\* A turn with one tool call resolved, and the history holds its four
\* messages.
C33_Witness ==
    /\ turn.promise = "resolved"
    /\ ToolsWanted
    /\ NoResetInTurn
    /\ Len(agent.conversationHistory) = 4
    /\ turn.followUp # <<>>
    /\ Len(turn.results) = 1

\* A turn without tools resolved, and the history holds its two messages.
C33_WitnessPlain ==
    /\ turn.promise = "resolved"
    /\ ~ToolsWanted
    /\ NoResetInTurn
    /\ Len(agent.conversationHistory) = 2
    /\ turn.fullResponse # <<>>

----------------------------------------------------------------------------
(* A streaming command after its timeout, in SpecExec. *)

\* The streaming call under way has been rejected by its timeout.
StreamTimedOut ==
    /\ tools.call.api = "executeCommandStream"
    /\ tools.call.pc = "threw"
    /\ tools.call.error = TimeoutError
    /\ tools.call.timedOut

\* C34: once the timeout of a streaming command has fired, the child has
\* been killed and the call rejected, no output is added to what the call
\* has gathered, the per-chunk callback is not called again and no
\* execution record is added.
C34_QuietAfterTimeout ==
    [][(StreamTimedOut /\ tools'.started = tools.started) =>
          /\ tools'.stdout = tools.stdout
          /\ tools'.onData = tools.onData
          /\ tools'.executionHistory = tools.executionHistory]_vars

\* A streaming command timed out with nothing written; the callback was then
\* called with output, the child closed, and the execution history holds a
\* record with that output.
C34_Witness ==
    /\ StreamTimedOut
    /\ tools.proc = "closed"
    /\ Len(tools.onData) > 0
    /\ Len(tools.executionHistory) = 1
    /\ tools.executionHistory[1].stdout = tools.stdout
    /\ tools.stdout # <<>>

----------------------------------------------------------------------------
(* importHistory of a document that lacks some of its keys, in SpecExport. *)

\* The last operation imported a JSON document (an object).
ImportedDocument ==
    /\ lastOp.op = "importHistory"
    /\ lastOp.arg.json
    /\ ~IsNullText(lastOp.arg)

\* C35: importHistory of a JSON document succeeds and takes each field from
\* the document when it is there: without model the agent keeps its model,
\* without systemPrompt its system prompt, and without history the history
\* becomes empty.
C35_ImportFallbacks ==
    ImportedDocument =>
        LET data == lastOp.arg.doc
            old == lastOp.before
        IN /\ ~lastOp.threw
           /\ "model" \notin DOMAIN data => agent.model = old.model
           /\ "systemPrompt" \notin DOMAIN data => agent.systemPrompt = old.systemPrompt
           /\ "history" \notin DOMAIN data => agent.conversationHistory = <<>>
           /\ ("model" \in DOMAIN data /\ ~Falsy(data["model"]))
                  => agent.model = data["model"]
           /\ ("systemPrompt" \in DOMAIN data /\ ~Falsy(data["systemPrompt"]))
                  => agent.systemPrompt = data["systemPrompt"]
           /\ "history" \in DOMAIN data => agent.conversationHistory = data["history"]

\* A document with a model only was imported into an agent with a system
\* prompt of its own and a history: the model is new, the prompt is kept and
\* the history is empty.
C35_Witness ==
    /\ ImportedDocument
    /\ DOMAIN lastOp.arg.doc = {"model"}
    /\ agent.model = "codellama"
    /\ lastOp.before.model # "codellama"
    /\ agent.systemPrompt = "Be brief."
    /\ lastOp.before.conversationHistory # <<>>
    /\ agent.conversationHistory = <<>>

----------------------------------------------------------------------------
(* The number of tool call records, in SpecExec. *)

\* C36: the tool call history grows by exactly one record in a step in which
\* a call of executeTool returns or throws, whatever the outcome, and in no
\* other step: a call that has ended has left one record, and a call that
\* has not ended none yet.
C36_OneRecordPerCall ==
    [][/\ Len(agent'.toolCallHistory)
              = Len(agent.toolCallHistory) + (IF ToolCallEnds THEN 1 ELSE 0)
       /\ \A i \in 1..Len(agent.toolCallHistory) :
              agent'.toolCallHistory[i] = agent.toolCallHistory[i]]_vars

\* Two calls have ended: one for a name executeTool does not know, one for
\* execute_command without an arguments object; each left one record.
C36_Witness ==
    /\ tools.started = 2
    /\ tools.call.pc = "threw"
    /\ Len(agent.toolCallHistory) = 2
    /\ agent.toolCallHistory[1].function \notin KnownTools
    /\ ~agent.toolCallHistory[1].success
    /\ agent.toolCallHistory[2].function = <<"execute_command">>
    /\ agent.toolCallHistory[2].args = JsNull
    /\ agent.toolCallHistory[2].error = TypeError

\* Two calls have ended: one whose primitive returned, one for a command on
\* the denylist; each left one record.
C36_WitnessDenied ==
    /\ tools.started = 2
    /\ Len(agent.toolCallHistory) = 2
    /\ agent.toolCallHistory[1].success
    /\ agent.toolCallHistory[1].function = <<"read_file">>
    /\ agent.toolCallHistory[2].error = SecurityError

\* Two calls have ended: both for read_file, the primitive of the second
\* having failed; each left one record.
C36_WitnessPrimitive ==
    /\ tools.started = 2
    /\ Len(agent.toolCallHistory) = 2
    /\ agent.toolCallHistory[1].success
    /\ agent.toolCallHistory[2].function = <<"read_file">>
    /\ ~agent.toolCallHistory[2].success
    /\ agent.toolCallHistory[2].error \notin {TypeError, SecurityError}

----------------------------------------------------------------------------
(* The token budget after addMessage, in SpecReset. *)

\* C37: after every addMessage the estimated token count of the history,
\* its content length divided by 4, is at most maxContextTokens.
C37_WithinBudgetAfterAdd ==
    lastOp.op = "addMessage" =>
        TotalChars(agent.conversationHistory) <= 4 * agent.maxContextTokens

\* An addMessage put a history of at most 10 messages over the budget; the
\* reset kept all of them and added its notice, and the history is longer
\* than it was when the reset began.
C37_Witness ==
    /\ AddedOverBudget
    /\ Len(Pushed) <= KeepRecent
    /\ agent.conversationHistory = ResetHistory(Pushed)
    /\ TotalChars(agent.conversationHistory) > TotalChars(Pushed)
    /\ TotalChars(agent.conversationHistory) > 4 * agent.maxContextTokens

----------------------------------------------------------------------------
(* SpecAfterDone: a server that goes on sending after a done fragment.     *)

\* The number of done fragments a stream is followed for.
MaxDone == 2

\* The content deltas of the first response: prose, or the marker of a tool
\* that needs no file and no child process.
AfterDoneDeltas == {<<"Sure">>, Marker("get_current_directory", "{}")}

\* What the first stream carries after its done fragment: prose and a
\* second done fragment.
MoreChunks ==
    {<<DoneFragment>>, <<Fragment(<<"more">>, FALSE, 0, 0), DoneFragment>>}

\* What the follow-up stream carries after its done fragment.
MoreFollowUpChunks ==
    {<<FollowUpDoneFragment>>,
     <<Fragment(<<"more">>, FALSE, 0, 0), FollowUpDoneFragment>>}

\* A data event of the first stream after its done fragment, in a turn
\* whose done handler took the branch without tools.
ServerSendsMore(lines) ==
    /\ turn.stream1 = "open"
    /\ turn.doneSeen >= 1
    /\ turn.doneSeen < MaxDone
    /\ ~ToolsWanted
    /\ Becomes(OnData(World, lines))
    /\ UNCHANGED <<lastOp, blob, scan, webVars>>

\* A data event of the follow-up stream after its done fragment.
FollowUpSendsMore(lines) ==
    /\ turn.stream2 = "open"
    /\ turn.doneSeen2 >= 1
    /\ turn.doneSeen2 < MaxDone
    /\ Becomes(OnFollowUpData(World, lines))
    /\ UNCHANGED <<lastOp, blob, scan, webVars>>

NextAfterDone ==
    \/ \E m \in UserMessages : CallStreamChat(m, "undefined")
    \/ ServerResponds
    \/ \E lines \in ChunksOf(AfterDoneDeltas) : ServerSends(lines)
    \/ \E lines \in MoreChunks : ServerSendsMore(lines)
    \/ FollowUpResponds
    \/ \E lines \in FollowUpChunks : FollowUpSends(lines)
    \/ \E lines \in MoreFollowUpChunks : FollowUpSendsMore(lines)

SpecAfterDone == InitArgs /\ [][NextAfterDone]_vars

\* The assistant messages among the messages a turn added.
AssistantCommits == SelectSeq(turn.commits, LAMBDA m : m.role = "assistant")

\* C38: the done handling of a request runs once: the turn adds at most one
\* assistant message for each of its requests whose done fragment has been
\* processed, dispatches each of its tool calls at most once and issues at
\* most one follow-up request, whatever the stream carries after the done
\* fragment.
C38_DoneHandledOnce ==
    /\ Len(AssistantCommits) <= (IF turn.doneSeen > 0 THEN 1 ELSE 0)
                                + (IF turn.doneSeen2 > 0 THEN 1 ELSE 0)
    /\ Len(turn.dispatched) <= Len(turn.toolCalls)
    /\ Len(turn.requests) <= 2

\* The first stream carried prose and a second done fragment after its done
\* fragment, and the turn added two assistant messages for its one request.
C38_Witness ==
    /\ turn.doneSeen = 2
    /\ turn.stream2 = "none"
    /\ Len(turn.requests) = 1
    /\ Len(AssistantCommits) = 2
    /\ AssistantCommits[1].content = <<"Sure">>
    /\ AssistantCommits[2].content = Cat(<<"Sure">>, <<"more">>)
    /\ Len(agent.conversationHistory) = 3

\* The follow-up stream carried a second done fragment, and the turn added
\* the follow-up text twice.
C38_WitnessFollowUp ==
    /\ turn.doneSeen = 1
    /\ turn.doneSeen2 = 2
    /\ Len(AssistantCommits) = 3
    /\ AssistantCommits[2] = AssistantCommits[3]

----------------------------------------------------------------------------
(* enableTools changed while the first request is under way, in SpecTurn.  *)

\* The first request of the turn was sent with the prompt that describes
\* the tools.
SentWithTools ==
    /\ turn.requests # <<>>
    /\ turn.requests[1].messages[1].content = <<agent.systemPrompt, ToolInstructions>>

\* C39: the value of enableTools when the done fragment is processed decides:
\* a turn whose request was sent with the tool prompt and whose response
\* holds a tool call, but whose done fragment found the tools disabled,
\* executes no tool, issues no follow-up request and commits the response
\* as a plain assistant message; and a turn sent without the tool prompt
\* whose done fragment found the tools enabled executes the tool calls.
C39_DecidedAtDone ==
    (DoneProcessed /\ turn.observed.found > 0) =>
        /\ (SentWithTools /\ ~turn.observed.enableTools) =>
              /\ turn.dispatched = <<>>
              /\ agent.toolCallHistory = <<>>
              /\ tools.started = 0
              /\ Len(turn.requests) = 1
              /\ turn.commits = <<UserCommit,
                                   [role |-> "assistant", content |-> turn.fullResponse]>>
              /\ turn.promise = "resolved"
              /\ turn.result.toolCalls = <<>>
        /\ (~SentWithTools /\ turn.observed.enableTools /\ turn.executeTools # "false") =>
              /\ Len(turn.dispatched) >= 1
              /\ turn.toolCalls = ExtractToolCalls(turn.fullResponse)

\* The request went out with the tool prompt, the tools were disabled before
\* the done fragment, the response held a tool call, and the turn resolved
\* without executing it.
C39_Witness ==
    /\ DoneProcessed
    /\ SentWithTools
    /\ turn.observed.found > 0
    /\ ~turn.observed.enableTools
    /\ turn.executeTools = "undefined"
    /\ turn.promise = "resolved"
    /\ turn.dispatched = <<>>

\* The request went out without the tool prompt, the tools were enabled
\* before the done fragment, and the tool call of the response was executed.
C39_WitnessEnabled ==
    /\ DoneProcessed
    /\ turn.requests # <<>>
    /\ ~SentWithTools
    /\ turn.observed.found > 0
    /\ turn.observed.enableTools
    /\ Len(turn.dispatched) >= 1

----------------------------------------------------------------------------
(* SpecClock: clients that ask for a session without naming an id, at one  *)
(* millisecond or at the next, and chat with the sessions they got.        *)

\* Date.now().toString() at two successive milliseconds.
ClockReadings == <<ClockId, "1762380000001">>

\* The clock does not run backwards: a reading is not earlier than the
\* reading any session in the Map was named after.
NotBefore(now) ==
    \A earlier \in DOMAIN ClockReadings :
        MapHas(agents, ClockReadings[earlier]) => earlier <= now

\* POST /api/init with no sessionId in the body, handled when the clock
\* reads ClockReadings[now].
PostInitNoId(now, isConnected) ==
    /\ NotBefore(now)
    /\ LET id == ClockReadings[now]
           session == NewSession(UNDEF, 0)
       IN /\ agents' = IF isConnected THEN MapSet(agents, id, session) ELSE agents
          /\ reply' = Answer("init", id, IF isConnected THEN 200 ELSE 503)
          /\ lastOp' = [NoOp EXCEPT !.op = "init", !.arg = id,
                                    !.threw = ~isConnected, !.before = agents]
    /\ UNCHANGED <<agent, blob, scan, runVars>>

ClockSessionIds == {ClockReadings[now] : now \in DOMAIN ClockReadings}

NextClock ==
    \/ \E now \in DOMAIN ClockReadings, isConnected \in BOOLEAN :
          PostInitNoId(now, isConnected)
    \/ \E sessionId \in ClockSessionIds : PostModel(sessionId, "mistral")
    \/ \E sessionId \in ClockSessionIds, message \in UserMessages :
          PostChat(sessionId, message)
    \/ \E sessionId \in ClockSessionIds : SessionResponds(sessionId)
    \/ \E sessionId \in ClockSessionIds, lines \in WebChunks :
          SessionSends(sessionId, lines)

SpecClock == InitWeb /\ [][NextClock]_vars

\* The last request was an initialisation without id that succeeded.
InitSucceeded == lastOp.op = "init" /\ ~lastOp.threw

\* C40: a successful initialisation that gives no session id obtains an id
\* that no earlier initialisation obtained: the Map held no agent under it,
\* and every agent it held is still there.
C40_GeneratedIdsDiffer ==
    InitSucceeded =>
        /\ ~MapHas(lastOp.before, lastOp.arg)
        /\ \A id \in DOMAIN lastOp.before : agents[id] = lastOp.before[id]

\* Two initialisations without id were handled in the same millisecond: the
\* second obtained the id of the first, and the agent of the first, which
\* had a conversation, is no longer in the Map.
C40_Witness ==
    /\ InitSucceeded
    /\ MapHas(lastOp.before, lastOp.arg)
    /\ lastOp.before[lastOp.arg].agent.conversationHistory # <<>>
    /\ agents[lastOp.arg].agent.conversationHistory = <<>>
    /\ Cardinality(DOMAIN agents) = 1

\* Two initialisations without id were handled at different milliseconds and
\* the Map holds two agents.
C40_WitnessApart ==
    /\ InitSucceeded
    /\ ~MapHas(lastOp.before, lastOp.arg)
    /\ Cardinality(DOMAIN agents) = 2

====
